---- MODULE Spec2Model ----
(***************************************************************************)
(* Evidence generation and verification engine of lexplain-veritas-sync.   *)
(*                                                                         *)
(* The model covers the generate-evidence edge function (OTP gate, consent *)
(* record, evidence assembly, signing, anchoring, persistence), the        *)
(* send-otp / verify-otp functions that feed its OTP gate, and the         *)
(* verify-evidence edge function (EvidenceVerifier).                       *)
(*                                                                         *)
(* JavaScript values are modelled as tagged records of one uniform shape,  *)
(* strings as sequences of atoms.  An atom is either literal text or a     *)
(* symbolic term (SHA-256 digest, ECDSA signature, random fingerprint,     *)
(* UUID, ISO timestamp) whose length and alphabet are those of the real    *)
(* encoding.                                                               *)
(***************************************************************************)
EXTENDS Integers, Sequences, FiniteSets, TLC

(***************************************************************************)
(* Bounds of the model.                                                    *)
(***************************************************************************)
NumReq == 2

GenReq == 2

VerifyReq == 1

MaxTime == 1

MaxOtpRows == 2

\* upload-document requests
MaxUploads == 1

\* concurrent verify-otp requests
OtpReq == 2

(***************************************************************************)
(* Strings: sequences of atoms.                                            *)
(***************************************************************************)
Atom(k, s, n, of) == [k |-> k, s |-> s, n |-> n, of |-> of]

W(s) == Atom("w", s, 0, <<>>)

Text(s) == <<W(s)>>

NumAtom(n) == Atom("num", "", n, <<>>)

IsoAtom(n) == Atom("iso", "", n, <<>>)

UuidAtom(kind, n) == Atom("uuid", kind, n, <<>>)

Sha256HexLen == 64

EcdsaB64Len == 88

FingerprintB64Len == 64

UuidLen == 36

IsoLen == 24

AtomLen(a) ==
  CASE a.k = "w" -> Len(a.s)
    [] a.k = "num" -> Len(ToString(a.n))
    [] a.k = "iso" -> IsoLen
    [] a.k = "uuid" -> UuidLen
    [] a.k = "sha256" -> Sha256HexLen
    [] a.k = "sig" -> EcdsaB64Len
    [] a.k = "fp" -> FingerprintB64Len
    [] a.k = "sub" -> a.n
    [] OTHER -> 0

RECURSIVE StrLen(_)
StrLen(s) == IF s = <<>> THEN 0 ELSE AtomLen(Head(s)) + StrLen(Tail(s))

\* String.prototype.includes for a literal needle that is one word of text
Includes(s, needle) == \E i \in 1..Len(s) : s[i].k = "w" /\ s[i].s = needle

\* String.prototype.substring(0, n), kept symbolic for digests
Substring0(s, n) == IF StrLen(s) <= n THEN s ELSE <<Atom("sub", "", n, s)>>

(***************************************************************************)
(* JavaScript values.                                                      *)
(***************************************************************************)
JS(t, n, s, kids) == [t |-> t, n |-> n, s |-> s, kids |-> kids]

Undefined == JS("undefined", 0, <<>>, <<>>)

Null == JS("null", 0, <<>>, <<>>)

Bool(b) == JS("bool", IF b THEN 1 ELSE 0, <<>>, <<>>)

Num(n) == JS("num", n, <<>>, <<>>)

Str(s) == JS("str", 0, s, <<>>)

KV(k, v) == [k |-> k, val |-> v]

Obj(kids) == JS("obj", 0, <<>>, kids)

Arr(items) == JS("arr", 0, <<>>, [i \in 1..Len(items) |-> KV("", items[i])])

\* the value an async function call evaluates to when it is not awaited
Promise(v) == JS("promise", 0, <<>>, <<KV("", v)>>)

\* ToBoolean
Truthy(v) ==
  CASE v.t = "undefined" -> FALSE
    [] v.t = "null" -> FALSE
    [] v.t = "bool" -> v.n = 1
    [] v.t = "num" -> v.n # 0
    [] v.t = "str" -> v.s # <<>>
    [] OTHER -> TRUE

HasKey(v, key) == v.t = "obj" /\ \E i \in 1..Len(v.kids) : v.kids[i].k = key

\* property read v[key] on a value that is not null or undefined
Get(v, key) ==
  IF HasKey(v, key)
    THEN v.kids[CHOOSE i \in 1..Len(v.kids) : v.kids[i].k = key].val
    ELSE Undefined

\* optional chaining v?.key
OptGet(v, key) == IF v.t \in {"undefined", "null"} THEN Undefined ELSE Get(v, key)

\* a || b
OrElse(a, b) == IF Truthy(a) THEN a ELSE b

\* v.length
LengthOf(v) ==
  CASE v.t = "str" -> Num(StrLen(v.s))
    [] v.t = "arr" -> Num(Len(v.kids))
    [] OTHER -> Get(v, "length")

\* obj with property key set to val (assignment obj[key] = val)
SetKey(v, key, val) ==
  IF HasKey(v, key)
    THEN Obj([i \in 1..Len(v.kids) |->
               IF v.kids[i].k = key THEN KV(key, val) ELSE v.kids[i]])
    ELSE Obj(Append(v.kids, KV(key, val)))

Keys(v) == [i \in 1..Len(v.kids) |-> v.kids[i].k]

(***************************************************************************)
(* JSON.stringify(value, replacerArray).  A replacer array is an allow     *)
(* list of property names that applies to objects at every depth; array    *)
(* elements are never filtered.                                            *)
(***************************************************************************)
NoReplacer == [on |-> FALSE, keys |-> <<>>]

Replacer(keys) == [on |-> TRUE, keys |-> keys]

\* values that JSON.stringify leaves out of objects
Unserializable(v) == v.t = "undefined"

\* the property names serialized for an object, in output order: the
\* replacer's order when there is one, the object's own order otherwise
PropertyList(v, allow) ==
  IF allow.on THEN SelectSeq(allow.keys, LAMBDA k : HasKey(v, k)) ELSE Keys(v)

RECURSIVE Stringify(_, _)
RECURSIVE Members(_, _, _, _, _)
Members(v, names, i, allow, first) ==
  IF i > Len(names) THEN <<>>
  ELSE LET val == Get(v, names[i])
       IN IF Unserializable(val) THEN Members(v, names, i + 1, allow, first)
          ELSE (IF first THEN <<>> ELSE <<W(",")>>)
                 \o <<W("\""), W(names[i]), W("\""), W(":")>>
                 \o Stringify(val, allow)
                 \o Members(v, names, i + 1, allow, FALSE)

RECURSIVE Elements(_, _, _)
Elements(kids, i, allow) ==
  IF i > Len(kids) THEN <<>>
  ELSE (IF i = 1 THEN <<>> ELSE <<W(",")>>)
         \o (IF Unserializable(kids[i].val) THEN <<W("null")>>
             ELSE Stringify(kids[i].val, allow))
         \o Elements(kids, i + 1, allow)

Stringify(v, allow) ==
  CASE v.t = "str" -> <<W("\"")>> \o v.s \o <<W("\"")>>
    [] v.t = "num" -> <<NumAtom(v.n)>>
    [] v.t = "bool" -> IF v.n = 1 THEN <<W("true")>> ELSE <<W("false")>>
    [] v.t = "null" -> <<W("null")>>
    [] v.t = "obj" -> <<W("{")>> \o Members(v, PropertyList(v, allow), 1, allow, TRUE) \o <<W("}")>>
    [] v.t = "arr" -> <<W("[")>> \o Elements(v.kids, 1, allow) \o <<W("]")>>
    [] v.t = "promise" -> <<W("{"), W("}")>>
    [] OTHER -> <<>>

(***************************************************************************)
(* Time.  Instants are clock ticks since the epoch; an ISO-8601 string is  *)
(* the atom IsoAtom(n).  DateOf is `new Date(v)`: NaN is valid = FALSE.    *)
(***************************************************************************)
Iso(n) == Str(<<IsoAtom(n)>>)

DateOf(v) ==
  CASE v.t = "str" /\ Len(v.s) = 1 /\ v.s[1].k = "iso" -> [valid |-> TRUE, time |-> v.s[1].n]
    [] v.t = "num" -> [valid |-> TRUE, time |-> v.n]
    [] v.t = "null" -> [valid |-> TRUE, time |-> 0]
    [] v.t = "bool" -> [valid |-> TRUE, time |-> 0]
    [] OTHER -> [valid |-> FALSE, time |-> 0]

(***************************************************************************)
(* atob: succeeds on base64 text.  Digests, signatures and fingerprints    *)
(* are base64 by construction; literal text is looked up.                  *)
(***************************************************************************)
Base64Words == {"c2ln", "QUJD"}

IsBase64(s) ==
  \A i \in 1..Len(s) :
    \/ s[i].k \in {"sig", "fp", "sha256"}
    \/ s[i].k = "w" /\ s[i].s \in Base64Words

(***************************************************************************)
(* EvidenceVerifier (verify-evidence function).                            *)
(***************************************************************************)
requiredFields == <<"evidence_id", "timestamp", "document", "analysis", "consent", "security">>

MinSignatureLength == 64

\* the boolean the promise returned by verifySignature resolves to
verifySignature(evidenceJson, signature) ==
  IF ~Truthy(signature) THEN FALSE
  ELSE IF LengthOf(signature).t = "num" /\ LengthOf(signature).n < MinSignatureLength THEN FALSE
  ELSE IF evidenceJson.t \in {"undefined", "null"} THEN FALSE
  ELSE IF \E i \in 1..Len(requiredFields) : ~Truthy(Get(evidenceJson, requiredFields[i])) THEN FALSE
  ELSE IF signature.t = "str" /\ ~IsBase64(signature.s) THEN FALSE
  ELSE TRUE

DocumentHashLength == 64

IssueIf(cond, text) == IF cond THEN <<text>> ELSE <<>>

\* detectTampering(evidenceJson).issues, for evidenceJson not null or undefined
detectTampering(evidenceJson, clock) ==
  LET timestamp == DateOf(Get(evidenceJson, "timestamp"))
      consent == Get(evidenceJson, "consent")
      document == Get(evidenceJson, "document")
      security == Get(evidenceJson, "security")
      hash == OptGet(document, "hash")
      jsonString == Stringify(evidenceJson, NoReplacer)
  IN IssueIf(~timestamp.valid \/ timestamp.time > clock, "Invalid or future timestamp")
       \o IssueIf(~Truthy(OptGet(consent, "phone_number")), "Missing phone number in consent")
       \o IssueIf(~Truthy(OptGet(consent, "fingerprint_hash")), "Missing fingerprint hash")
       \o IssueIf(~Truthy(hash) \/ LengthOf(hash) # Num(DocumentHashLength),
                  "Invalid document hash format")
       \o IssueIf(~Truthy(OptGet(security, "signature")), "Missing digital signature")
       \o IssueIf(Includes(jsonString, "MODIFIED") \/ Includes(jsonString, "TAMPERED"),
                  "Evidence contains modification markers")

HighConfidence == 95

LowConfidence == 15

\* generateVerificationReport: verifySignature is async and is called
\* without await, so signatureValid holds the promise, not the boolean
generateVerificationReport(evidenceJson, signature, clock) ==
  LET signatureValid == Promise(Bool(verifySignature(evidenceJson, signature)))
      issues == detectTampering(evidenceJson, clock)
      tampered == Len(issues) > 0
      consent == Get(evidenceJson, "consent")
      location == OptGet(consent, "location")
      ok == Truthy(signatureValid) /\ ~tampered
  IN [ signature_valid |-> signatureValid,
       algorithm |-> OrElse(OptGet(Get(evidenceJson, "security"), "algorithm"), Str(Text("Unknown"))),
       tampered |-> tampered,
       issues |-> issues,
       integrity_score |-> IF tampered THEN "FAIL" ELSE "PASS",
       consent_verified |-> Truthy(OptGet(consent, "otp_verified"))
                              /\ Truthy(OptGet(consent, "fingerprint_hash")),
       voice_recording |-> Truthy(OptGet(consent, "voice_consent_recorded")),
       location_data |-> Truthy(OptGet(location, "latitude"))
                           /\ Truthy(OptGet(location, "longitude")),
       ethereum_anchored |-> Truthy(Get(evidenceJson, "blockchain_tx_hash")),
       ipfs_anchored |-> Truthy(Get(evidenceJson, "ipfs_hash")),
       overall_status |-> IF ok THEN "VERIFIED" ELSE "INVALID",
       confidence_score |-> IF ok THEN HighConfidence ELSE LowConfidence ]

NoReport ==
  [ signature_valid |-> Undefined, algorithm |-> Undefined, tampered |-> FALSE,
    issues |-> <<>>, integrity_score |-> "", consent_verified |-> FALSE,
    voice_recording |-> FALSE, location_data |-> FALSE, ethereum_anchored |-> FALSE,
    ipfs_anchored |-> FALSE, overall_status |-> "", confidence_score |-> 0 ]

ErrorResponse(message) ==
  [status |-> 400, error |-> message, report |-> NoReport, key_findings |-> <<>>]

\* serve handler of verify-evidence, for a request whose body parsed as JSON
VerifyHandler(method, body, clock) ==
  LET evidence_json == Get(body, "evidence_json")
      signature == Get(body, "signature")
      report == generateVerificationReport(evidence_json, signature, clock)
      findings ==
        <<IF Truthy(report.signature_valid) THEN "signature valid" ELSE "signature failed">>
          \o <<IF ~report.tampered THEN "no tampering" ELSE "tampering detected">>
          \o <<IF report.consent_verified THEN "consent captured" ELSE "consent incomplete">>
          \o (IF report.ethereum_anchored \/ report.ipfs_anchored THEN <<"anchored">> ELSE <<>>)
  IN IF method # "POST" THEN ErrorResponse("Method not allowed")
     ELSE IF ~Truthy(evidence_json) \/ ~Truthy(signature)
       THEN ErrorResponse("Evidence JSON and signature are required")
     ELSE [status |-> 200, error |-> "", report |-> report, key_findings |-> findings]

(***************************************************************************)
(* CryptoService and BlockchainService (generate-evidence function).       *)
(***************************************************************************)
\* hashSHA256: hex digest, a symbolic term over the hashed string
hashSHA256(data) == Str(<<Atom("sha256", "", 0, data)>>)

\* generateFingerprintHash: base64 of 48 fresh random bytes
generateFingerprintHash(nonce) == Str(<<Atom("fp", "", nonce, <<>>)>>)

\* generateKeyPair: a fresh P-256 key pair per call
generateKeyPair(nonce) == [kind |-> "generated", n |-> nonce]

EnvKey == [kind |-> "env", n |-> 0]

\* the publicKey half of a key pair, base64 of its spki export
PublicKeyOf(keyPair) == Str(<<Atom("spki", keyPair.kind, keyPair.n, <<>>)>>)

MalformedKey == [kind |-> "malformed", n |-> 0]

\* signData throws when atob or importKey rejects the key material
signDataThrows(privateKey) == privateKey.kind = "malformed"

signData(data, privateKey) == Str(<<Atom("sig", privateKey.kind, privateKey.n, data)>>)

IpfsPrefixLen == 44

EthPrefixLen == 64

anchorToIPFS(evidenceHash, ipfsApiKey) ==
  IF ~ipfsApiKey THEN Null
  ELSE Str(Text("Qm") \o Substring0(evidenceHash.s, IpfsPrefixLen))

\* mutant: the private key is not required
anchorToEthereum_RpcOnly(evidenceHash, ethRpcUrl, ethPrivateKey) ==
  IF ~ethRpcUrl THEN Null
  ELSE Str(Text("0x") \o Substring0(evidenceHash.s, EthPrefixLen))

anchorToEthereum(evidenceHash, ethRpcUrl, ethPrivateKey) ==
  IF ~ethRpcUrl \/ ~ethPrivateKey THEN Null
  ELSE Str(Text("0x") \o Substring0(evidenceHash.s, EthPrefixLen))

(***************************************************************************)
(* Evidence assembly, canonical form and signing (generate-evidence,       *)
(* steps 6 to 9).                                                          *)
(***************************************************************************)
\* parseFloat of a form field holding a decimal number
parseFloat(field) == IF field.t = "str" /\ Len(field.s) = 1 /\ field.s[1].k = "num"
                       THEN Num(field.s[1].n) ELSE Null

EvidenceData(nonce, clock, analysis, phoneNumber, fingerprintHash, voiceFile, voiceFilePath, latitude, longitude, address, consentTimestamp) ==
  Obj(<<
    KV("evidence_id", Str(<<UuidAtom("evidence", nonce)>>)),
    KV("timestamp", Iso(clock)),
    KV("document", Obj(<<
      KV("id", analysis.documents.id),
      KV("filename", analysis.documents.original_filename),
      KV("hash", hashSHA256(analysis.documents.file_path.s \o analysis.documents.created_at.s)) >>)),
    KV("analysis", Obj(<<
      KV("ocr_confidence", analysis.ocr_confidence),
      KV("clauses", analysis.clauses),
      KV("auth_flags", analysis.auth_flags),
      KV("analysis_confidence", analysis.analysis_confidence) >>)),
    KV("consent", Obj(<<
      KV("phone_number", phoneNumber),
      KV("otp_verified", Bool(TRUE)),
      KV("fingerprint_hash", fingerprintHash),
      KV("voice_consent_recorded", Bool(voiceFile)),
      KV("voice_file_path", voiceFilePath),
      KV("location", Obj(<<
        KV("latitude", IF Truthy(latitude) THEN parseFloat(latitude) ELSE Null),
        KV("longitude", IF Truthy(longitude) THEN parseFloat(longitude) ELSE Null),
        KV("address", address) >>)),
      KV("timestamp", consentTimestamp) >>)),
    KV("security", Obj(<<
      KV("version", Str(Text("1.0"))),
      KV("algorithm", Str(Text("ECDSA-P256-SHA256"))),
      KV("previous_hash", Null) >>)) >>)

\* property names in the order Array.prototype.sort gives them
LexOrder ==
  << "address", "algorithm", "analysis", "analysis_confidence", "auth_flags",
     "barcode_present", "blockchain_tx_hash", "clauses", "consent", "document",
     "evidence_id", "filename", "fingerprint_hash", "format_suspicious", "hash",
     "id", "ipfs_hash", "latitude", "location", "longitude", "ocr_confidence",
     "otp_verified", "phone_number", "previous_hash", "qr_mismatch", "qr_present",
     "risk_level", "security", "signature", "text", "timestamp", "type", "version",
     "voice_consent_recorded", "voice_file_path" >>

\* Object.keys(obj).sort()
SortedKeys(obj) ==
  SelectSeq(LexOrder, LAMBDA k : \E i \in 1..Len(obj.kids) : obj.kids[i].k = k)

\* mutant: JSON.stringify without the sorted replacer
canonicalJson_NoReplacer(evidenceData) == Stringify(evidenceData, NoReplacer)

\* JSON.stringify(evidenceData, Object.keys(evidenceData).sort())
canonicalJson(evidenceData) == Stringify(evidenceData, Replacer(SortedKeys(evidenceData)))

\* mutant: the signature is computed but never attached to the payload
WithSignature_NotAttached(evidenceData, signature) == evidenceData

\* evidenceData.security.signature = signature
WithSignature(evidenceData, signature) ==
  SetKey(evidenceData, "security", SetKey(Get(evidenceData, "security"), "signature", signature))

(***************************************************************************)
(* Database rows and request inputs.                                       *)
(***************************************************************************)
DocumentRow(n, filename, status) ==
  [ id |-> Str(<<UuidAtom("document", n)>>),
    original_filename |-> Str(filename),
    file_path |-> Str(Text("documents/") \o filename),
    status |-> status,
    created_at |-> Iso(0) ]

Clause(id, type, text, risk) ==
  Obj(<< KV("id", Str(Text(id))), KV("type", Str(Text(type))),
         KV("text", Str(text)), KV("risk_level", Str(Text(risk))) >>)

AuthFlags(qr, barcode) ==
  Obj(<< KV("qr_present", Bool(qr)), KV("barcode_present", Bool(barcode)),
         KV("qr_mismatch", Bool(FALSE)), KV("format_suspicious", Bool(FALSE)) >>)

AnalysisId(n) == Str(<<UuidAtom("analysis", n)>>)

AnalysisRow(n, document, clauses) ==
  [ id |-> AnalysisId(n),
    ocr_confidence |-> Num(90),
    clauses |-> Arr(clauses),
    auth_flags |-> AuthFlags(TRUE, FALSE),
    analysis_confidence |-> Num(85),
    documents |-> document ]

NoAnalysis == AnalysisRow(0, DocumentRow(0, <<>>, ""), <<>>)

\* the analyses present when the model starts: one ordinary lease, one whose
\* file name carries the word MODIFIED
InitialAnalyses ==
  { AnalysisRow(1, DocumentRow(1, Text("lease.pdf"), "completed"),
                <<Clause("c1", "payment", Text("rent due monthly"), "low")>>),
    AnalysisRow(2, DocumentRow(2, <<W("MODIFIED"), W("_lease.pdf")>>, "completed"),
                <<Clause("c1", "penalty", Text("late fee"), "high")>>) }

OtpTtl == 10

\* mutant: the consent record of an analysis is reused instead of a new row
ConsentRow_Reused(n, analysisId, phoneNumber, fingerprintHash, voiceFilePath, lat, lng, address, clock) ==
  [ id |-> Str(<<UuidAtom("consent", 1)>>),
    analysis_id |-> analysisId,
    phone_number |-> phoneNumber,
    otp_verified |-> TRUE,
    fingerprint_hash |-> fingerprintHash,
    voice_file_path |-> voiceFilePath,
    location_lat |-> lat,
    location_lng |-> lng,
    location_address |-> address,
    timestamp |-> Iso(clock) ]

ConsentRow(n, analysisId, phoneNumber, fingerprintHash, voiceFilePath, lat, lng, address, clock) ==
  [ id |-> Str(<<UuidAtom("consent", n)>>),
    analysis_id |-> analysisId,
    phone_number |-> phoneNumber,
    otp_verified |-> TRUE,
    fingerprint_hash |-> fingerprintHash,
    voice_file_path |-> voiceFilePath,
    location_lat |-> lat,
    location_lng |-> lng,
    location_address |-> address,
    timestamp |-> Iso(clock) ]

NoConsent == ConsentRow(0, Null, Null, Null, Null, Null, Null, Null, 0)

\* form fields of a generate-evidence request
Form(method, analysisId, phone, code, location, voice) ==
  [ method |-> method, analysis_id |-> analysisId, phone_number |-> phone,
    otp_code |-> code, location |-> location, voice_file |-> voice ]

ThePhone == Str(Text("+919876543210"))

SentCode == Str(Text("123456"))

OtherCode == Str(Text("654321"))

\* a complete submission, with and without a voice recording
PlainForm == Form("POST", AnalysisId(1), ThePhone, SentCode, FALSE, FALSE)

VoiceForm == Form("POST", AnalysisId(1), ThePhone, SentCode, TRUE, TRUE)

\* a complete submission for the document whose name carries MODIFIED
MarkerForm == Form("POST", AnalysisId(2), ThePhone, SentCode, TRUE, FALSE)

\* submissions that must be rejected
WrongCodeForm == Form("POST", AnalysisId(1), ThePhone, OtherCode, FALSE, TRUE)

UnknownAnalysisForm == Form("POST", AnalysisId(9), ThePhone, SentCode, FALSE, FALSE)

NoPhoneForm == Form("POST", AnalysisId(1), Null, SentCode, FALSE, FALSE)

NoAnalysisForm == Form("POST", Null, ThePhone, SentCode, FALSE, FALSE)

NoCodeForm == Form("POST", AnalysisId(1), ThePhone, Null, FALSE, FALSE)

GetForm == Form("GET", AnalysisId(1), ThePhone, SentCode, FALSE, FALSE)

Latitude(form) == IF form.location THEN Str(<<NumAtom(12)>>) ELSE Null

Longitude(form) == IF form.location THEN Str(<<NumAtom(77)>>) ELSE Null

Address(form) == IF form.location THEN Str(Text("Bengaluru")) ELSE Null

NoResponse == [status |-> 0, error |-> "", success |-> FALSE, evidence_id |-> Undefined,
               evidence_hash |-> Undefined,
               blockchain_anchored |-> FALSE, ipfs_anchored |-> FALSE]

IdleRequest ==
  [ pc |-> "idle",
    form |-> [method |-> "", analysis_id |-> Null, phone_number |-> Null, otp_code |-> Null,
              location |-> FALSE, voice_file |-> FALSE],
    analysis |-> NoAnalysis,
    voiceFilePath |-> Null,
    fingerprintHash |-> Undefined,
    consentRecord |-> NoConsent,
    evidenceData |-> Undefined,
    signature |-> Undefined,
    evidenceHash |-> Undefined,
    ipfsHash |-> Null,
    blockchainTxHash |-> Null,
    anchorEnv |-> [ipfs |-> FALSE, eth |-> FALSE],  \* configuration the request saw
    overlaps |-> {},                                \* requests in flight on arrival
    response |-> NoResponse ]

\* request slots; GenSpec and AnchorSpec use the first GenReq, VerifySpec the first VerifyReq
Max(a, b) == IF a >= b THEN a ELSE b

Requests == 1..Max(NumReq, Max(GenReq, VerifyReq))

(***************************************************************************)
(* State.                                                                  *)
(***************************************************************************)
VARIABLES
  now,                \* wall clock, minutes
  otp_verifications,  \* table
  otpCount,           \* rows ever inserted into otp_verifications
  analyses,           \* table, each row joined with its documents row
  audio,              \* storage bucket: the set of object paths
  consent_records,    \* table
  evidence_records,   \* table
  req,                \* generate-evidence requests: position and locals
  verifyIn,           \* last verify-evidence request
  verifyOut,          \* and its response
  canon,              \* two evidence values and their canonical forms
  getOut,             \* response of the get-evidence request being answered
  documents,          \* table
  process,            \* processDocument runs started by upload-document
  otpReq,             \* verify-otp requests: position and locals
  workflow            \* state of the ProcessingWorkflow component

vars == << now, otp_verifications, otpCount, analyses, audio, consent_records,
           evidence_records, req, verifyIn, verifyOut, canon, getOut,
           documents, process, otpReq, workflow >>

NoGetOut ==
  [ status |-> 0, error |-> "", evidence_id |-> Undefined, signature |-> Undefined,
    verified |-> FALSE, signature_valid |-> FALSE, evidence_data |-> Undefined,
    anchored |-> FALSE, document_filename |-> Undefined ]

NoCanon == [applied |-> FALSE, a |-> Undefined, b |-> Undefined, outA |-> <<>>, outB |-> <<>>]

\* upload-document requests served, each starting one processDocument run
Uploads == 1..MaxUploads

NoProcess == [pc |-> "idle", documentId |-> Null]

\* verify-otp requests
OtpRequests == 1..OtpReq

NoOtpResponse == [status |-> 0, success |-> FALSE, error |-> ""]

IdleOtpRequest ==
  [ pc |-> "idle", method |-> "", phone_number |-> Undefined, otp_code |-> Undefined,
    otpRecord |-> 0,
    before |-> {},      \* otp_verifications on arrival
    response |-> NoOtpResponse ]

\* useState(1) and useState({document: null, ocrText: '', ...})
EmptyWorkflowData ==
  [ document |-> Null, ocrText |-> Str(<<>>), analysisResult |-> Null, consentData |-> Null,
    evidenceRecord |-> Null, extra |-> {} ]

\* pending: the steps whose completion callback is scheduled but has not run
InitialWorkflow == [currentStep |-> 1, workflowData |-> EmptyWorkflowData, pending |-> {}]

\* no earlier call with the same body
NoFirst == [at |-> 0, out |-> ErrorResponse("")]

NoVerifyIn == [kind |-> "none", method |-> "", body |-> Undefined, path |-> <<>>, record |-> Undefined, at |-> 0, first |-> NoFirst]

Init ==
  /\ now = 0
  /\ otp_verifications = {}
  /\ otpCount = 0
  /\ analyses = InitialAnalyses
  /\ audio = {}
  /\ consent_records = {}
  /\ evidence_records = {}
  /\ req = [r \in Requests |-> IdleRequest]
  /\ verifyIn = NoVerifyIn
  /\ verifyOut = ErrorResponse("")
  /\ canon = NoCanon
  /\ getOut = NoGetOut
  /\ documents = {a.documents : a \in InitialAnalyses}
  /\ process = [u \in Uploads |-> NoProcess]
  /\ otpReq = [q \in OtpRequests |-> IdleOtpRequest]
  /\ workflow = InitialWorkflow

Tick ==
  /\ now < MaxTime
  /\ now' = now + 1
  /\ UNCHANGED << documents, process, otpReq, workflow, canon, getOut, otp_verifications, otpCount, analyses, audio, consent_records,
                  evidence_records, req, verifyIn, verifyOut >>

(***************************************************************************)
(* send-otp and verify-otp.                                                *)
(***************************************************************************)
OtpRow(n, phone, code, verified, expires, created) ==
  [ id |-> n, phone_number |-> phone, otp_code |-> code, verified |-> verified,
    expires_at |-> expires, created_at |-> created ]

\* send-otp: insert a fresh code for the phone, then delete expired rows
SendOtp(phone, otp) ==
  /\ otpCount < MaxOtpRows
  /\ LET inserted == otp_verifications
                       \cup {OtpRow(otpCount + 1, phone, otp, FALSE, now + OtpTtl, now)}
     IN otp_verifications' = {row \in inserted : ~(row.expires_at < now)}
  /\ otpCount' = otpCount + 1
  /\ UNCHANGED << documents, process, otpReq, workflow, canon, getOut, now, analyses, audio, consent_records, evidence_records, req,
                  verifyIn, verifyOut >>

\* verify-otp: the newest unexpired unverified row for (phone, code) becomes
\* verified, the other unverified rows of the phone are deleted
VerifyOtp(phone, code) ==
  LET candidates == { row \in otp_verifications :
                        /\ row.phone_number = phone /\ row.otp_code = code
                        /\ ~row.verified /\ row.expires_at > now }
  IN /\ candidates # {}
     /\ \E otpRecord \in candidates :
          /\ \A other \in candidates : other.created_at <= otpRecord.created_at
          /\ LET updated == { IF row.id = otpRecord.id
                                THEN [row EXCEPT !.verified = TRUE] ELSE row
                              : row \in otp_verifications }
             IN otp_verifications' =
                  { row \in updated : ~(row.phone_number = phone /\ ~row.verified) }
     /\ UNCHANGED << documents, process, otpReq, workflow, canon, getOut, now, otpCount, analyses, audio, consent_records, evidence_records,
                     req, verifyIn, verifyOut >>

(***************************************************************************)
(* verify-otp step by step: the handler awaits between its database calls, *)
(* so requests that overlap interleave at the calls.  A request slot       *)
(* serves one request.                                                     *)
(***************************************************************************)
OtpFrame == UNCHANGED << documents, process, workflow, canon, getOut, now, otpCount, analyses, audio, consent_records, evidence_records, req, verifyIn, verifyOut >>

OtpFailure(message) == [status |-> 400, success |-> FALSE, error |-> message]

\* lines 215-234: method and body
OtpReceive(q, method, phone, code) ==
  /\ otpReq[q].pc = "idle"
  /\ \A p \in 1..(q - 1) : otpReq[p].pc # "idle"
  /\ LET arrived == [IdleOtpRequest EXCEPT !.method = method, !.phone_number = phone,
                                           !.otp_code = code, !.before = otp_verifications]
     IN otpReq' = [otpReq EXCEPT ![q] =
          IF method # "POST"
            THEN [arrived EXCEPT !.pc = "done", !.response = OtpFailure("Method not allowed")]
          ELSE IF ~Truthy(phone) \/ ~Truthy(code)
            THEN [arrived EXCEPT !.pc = "done",
                    !.response = OtpFailure("Phone number and OTP code are required")]
          ELSE [arrived EXCEPT !.pc = "find"]]
  /\ UNCHANGED otp_verifications
  /\ OtpFrame

\* mutant: the expiry filter is missing
OtpCandidates_NoExpiry(phone, code, clock) ==
  { row \in otp_verifications :
      row.phone_number = phone /\ row.otp_code = code /\ ~row.verified }

\* lines 237-245: the filters of the select
OtpCandidates(phone, code, clock) ==
  { row \in otp_verifications :
      /\ row.phone_number = phone /\ row.otp_code = code
      /\ ~row.verified /\ row.expires_at > clock }

\* lines 236-250: the newest candidate
OtpFind(q) ==
  /\ otpReq[q].pc = "find"
  /\ LET candidates == OtpCandidates(otpReq[q].phone_number, otpReq[q].otp_code, now)
     IN IF candidates = {}
          THEN otpReq' = [otpReq EXCEPT ![q].pc = "done",
                            ![q].response = OtpFailure("Invalid or expired OTP code")]
          ELSE \E otpRecord \in candidates :
                 /\ \A other \in candidates : other.created_at <= otpRecord.created_at
                 /\ otpReq' = [otpReq EXCEPT ![q].pc = "mark", ![q].otpRecord = otpRecord.id]
  /\ UNCHANGED otp_verifications
  /\ OtpFrame

\* lines 252-258: update by id
OtpMark(q, dbFault) ==
  /\ otpReq[q].pc = "mark"
  /\ IF dbFault
       THEN /\ otpReq' = [otpReq EXCEPT ![q].pc = "done", ![q].response = OtpFailure("update error")]
            /\ UNCHANGED otp_verifications
       ELSE /\ otpReq' = [otpReq EXCEPT ![q].pc = "cleanup"]
            /\ otp_verifications' = { IF row.id = otpReq[q].otpRecord
                                        THEN [row EXCEPT !.verified = TRUE] ELSE row
                                      : row \in otp_verifications }
  /\ OtpFrame

\* lines 260-275: the unverified rows of the phone are deleted, then the
\* success response
OtpCleanup(q) ==
  /\ otpReq[q].pc = "cleanup"
  /\ otp_verifications' =
       { row \in otp_verifications : ~(row.phone_number = otpReq[q].phone_number /\ ~row.verified) }
  /\ otpReq' = [otpReq EXCEPT ![q].pc = "done",
                              ![q].response = [status |-> 200, success |-> TRUE, error |-> ""]]
  /\ OtpFrame

\* a verify-otp request arrives
OtpArrive(methods, phones, codes) ==
  \E q \in OtpRequests, method \in methods, phone \in phones, code \in codes :
    OtpReceive(q, method, phone, code)

\* the database calls of the verify-otp requests under way
OtpSteps(faults) ==
  \/ \E q \in OtpRequests : OtpFind(q)
  \/ \E q \in OtpRequests, dbFault \in faults : OtpMark(q, dbFault)
  \/ \E q \in OtpRequests : OtpCleanup(q)

\* the verify-otp response is delivered
OtpReturn(q) ==
  /\ otpReq[q].pc = "done"
  /\ otpReq' = [otpReq EXCEPT ![q] = IdleOtpRequest]
  /\ UNCHANGED otp_verifications
  /\ OtpFrame

\* no verify-otp request is under way
NoOtpRequest == \A q \in OtpRequests : otpReq[q].pc \in {"idle", "done"}

\* every verify-otp request was answered
OtpIdle == \A q \in OtpRequests : otpReq[q].pc = "idle"

\* the time to live of a code passes
TtlElapses ==
  /\ now < MaxTime * OtpTtl
  /\ now' = now + OtpTtl
  /\ UNCHANGED << documents, process, otpReq, workflow, canon, getOut, otp_verifications, otpCount, analyses, audio, consent_records, evidence_records, req, verifyIn, verifyOut >>

(***************************************************************************)
(* generate-evidence: one action per step of the handler that reads the    *)
(* clock or touches the database or the storage bucket.                    *)
(***************************************************************************)
Failure(message) ==
  [NoResponse EXCEPT !.status = 400, !.error = message]

\* the handler returns: its locals are gone, the response is out
Finish(r, form, anchorEnv, response) ==
  req' = [req EXCEPT ![r] = [IdleRequest EXCEPT !.pc = "done", !.form = form,
                                                !.overlaps = req[r].overlaps,
                                                !.anchorEnv = anchorEnv,
                                                !.response = response]]

Fail(r, message) == Finish(r, req[r].form, IdleRequest.anchorEnv, Failure(message))

GenFrame == UNCHANGED << documents, process, otpReq, workflow, canon, getOut, now, otp_verifications, otpCount, analyses, verifyIn, verifyOut >>

\* lines 135-150: method check, form fields, required fields
GenReceive(r, form) ==
  /\ req[r].pc = "idle"
  /\ \A q \in Requests : q < r => req[q].pc # "idle"
  /\ IF form.method # "POST"
       THEN Finish(r, form, IdleRequest.anchorEnv, Failure("Method not allowed"))
     ELSE IF ~Truthy(form.analysis_id) \/ ~Truthy(form.phone_number) \/ ~Truthy(form.otp_code)
       THEN Finish(r, form, IdleRequest.anchorEnv,
                   Failure("Analysis ID, phone number and OTP code are required"))
     ELSE req' = [req EXCEPT ![r].pc = "otp", ![r].form = form,
                             ![r].overlaps = {q \in Requests : req[q].pc \notin {"idle", "done"}}]
  /\ UNCHANGED << audio, consent_records, evidence_records >>
  /\ GenFrame

\* mutant: the lookup forgets .eq('verified', true)
VerifiedOtpRows_AnyRow(phone, code) ==
  { row \in otp_verifications : row.phone_number = phone /\ row.otp_code = code }

VerifiedOtpRows(phone, code) ==
  { row \in otp_verifications :
      row.phone_number = phone /\ row.otp_code = code /\ row.verified }

\* mutant: the verified row is used up by the request that finds it
GenOtpLookup_Consumes(r) ==
  /\ req[r].pc = "otp"
  /\ IF Cardinality(VerifiedOtpRows(req[r].form.phone_number, req[r].form.otp_code)) # 1
       THEN Fail(r, "OTP verification failed") /\ UNCHANGED otp_verifications
       ELSE /\ req' = [req EXCEPT ![r].pc = "analysis"]
            /\ otp_verifications' = otp_verifications
                 \ VerifiedOtpRows(req[r].form.phone_number, req[r].form.otp_code)
  /\ UNCHANGED << audio, consent_records, evidence_records >>
  /\ UNCHANGED << documents, process, otpReq, workflow, canon, getOut, now, otpCount, analyses, verifyIn, verifyOut >>

\* lines 152-163: the OTP must have been verified; .single() wants one row
GenOtpLookup(r) ==
  /\ req[r].pc = "otp"
  /\ IF Cardinality(VerifiedOtpRows(req[r].form.phone_number, req[r].form.otp_code)) # 1
       THEN Fail(r, "OTP verification failed")
       ELSE req' = [req EXCEPT ![r].pc = "analysis"]
  /\ UNCHANGED << audio, consent_records, evidence_records >>
  /\ GenFrame

\* lines 165-177
GenAnalysisLookup(r) ==
  /\ req[r].pc = "analysis"
  /\ LET found == {a \in analyses : a.id = req[r].form.analysis_id}
     IN IF Cardinality(found) # 1
          THEN Fail(r, "Analysis not found")
          ELSE req' = [req EXCEPT ![r].pc = "voice",
                                  ![r].analysis = CHOOSE a \in found : TRUE]
  /\ UNCHANGED << audio, consent_records, evidence_records >>
  /\ GenFrame

\* `audio/consent_${analysisId}_${Date.now()}.webm`
VoicePath(analysisId, clock) ==
  Str(Text("audio/consent_") \o analysisId.s \o <<W("_"), NumAtom(clock), W(".webm")>>)

\* mutant: uploadError is not thrown
GenVoiceUpload_ErrorIgnored(r, storageFault) ==
  /\ req[r].pc = "voice"
  /\ IF ~req[r].form.voice_file
       THEN /\ req' = [req EXCEPT ![r].pc = "consent"]
            /\ UNCHANGED audio
       ELSE LET voiceFilePath == VoicePath(req[r].form.analysis_id, now)
            IN /\ req' = [req EXCEPT ![r].pc = "consent",
                                     ![r].voiceFilePath = voiceFilePath]
               /\ audio' = IF storageFault THEN audio ELSE audio \cup {voiceFilePath}
  /\ UNCHANGED << consent_records, evidence_records >>
  /\ GenFrame

\* lines 179-193: upload with upsert: false fails on an existing object
GenVoiceUpload(r, storageFault) ==
  /\ req[r].pc = "voice"
  /\ IF ~req[r].form.voice_file
       THEN /\ req' = [req EXCEPT ![r].pc = "consent"]
            /\ UNCHANGED audio
       ELSE LET voiceFilePath == VoicePath(req[r].form.analysis_id, now)
            IN IF storageFault \/ voiceFilePath \in audio
                 THEN /\ Fail(r, "upload error")
                      /\ UNCHANGED audio
                 ELSE /\ req' = [req EXCEPT ![r].pc = "consent",
                                            ![r].voiceFilePath = voiceFilePath]
                      /\ audio' = audio \cup {voiceFilePath}
  /\ UNCHANGED << consent_records, evidence_records >>
  /\ GenFrame

\* mutant: the consent of an analysis is upserted, replacing the earlier row
GenConsentInsert_Upsert(r, dbFault) ==
  /\ req[r].pc = "consent"
  /\ LET fingerprintHash == generateFingerprintHash(r)
         form == req[r].form
         row == ConsentRow(Cardinality(consent_records) + 1, form.analysis_id,
                           form.phone_number, fingerprintHash, req[r].voiceFilePath,
                           IF form.location THEN parseFloat(Latitude(form)) ELSE Null,
                           IF form.location THEN parseFloat(Longitude(form)) ELSE Null,
                           Address(form), now)
     IN IF dbFault
          THEN /\ Fail(r, "consent insert error")
               /\ UNCHANGED consent_records
          ELSE /\ req' = [req EXCEPT ![r].pc = "assemble",
                                     ![r].fingerprintHash = fingerprintHash,
                                     ![r].consentRecord = row]
               /\ consent_records' =
                    {c \in consent_records : c.analysis_id # form.analysis_id} \cup {row}
  /\ UNCHANGED << audio, evidence_records >>
  /\ GenFrame

\* lines 195-214: a new consent_records row for every request
GenConsentInsert(r, dbFault) ==
  /\ req[r].pc = "consent"
  /\ LET fingerprintHash == generateFingerprintHash(r)
         form == req[r].form
         row == ConsentRow(Cardinality(consent_records) + 1, form.analysis_id,
                           form.phone_number, fingerprintHash, req[r].voiceFilePath,
                           IF form.location THEN parseFloat(Latitude(form)) ELSE Null,
                           IF form.location THEN parseFloat(Longitude(form)) ELSE Null,
                           Address(form), now)
     IN IF dbFault
          THEN /\ Fail(r, "consent insert error")
               /\ UNCHANGED consent_records
          ELSE /\ req' = [req EXCEPT ![r].pc = "assemble",
                                     ![r].fingerprintHash = fingerprintHash,
                                     ![r].consentRecord = row]
               /\ consent_records' = consent_records \cup {row}
  /\ UNCHANGED << audio, evidence_records >>
  /\ GenFrame

\* ECDSA_PRIVATE_KEY of the environment, or a key pair generated on the spot
SigningKey(keyEnv, nonce) ==
  CASE keyEnv = "unset" -> generateKeyPair(nonce)
    [] keyEnv = "valid" -> EnvKey
    [] OTHER -> MalformedKey

\* mutant: voice_consent_recorded is set whether or not a recording came
GenAssembleSign_VoiceAlways(r, keyEnv, ipfsApiKey, ethRpcUrl, ethPrivateKey) ==
  /\ req[r].pc = "assemble"
  /\ LET form == req[r].form
         evidenceData == EvidenceData(r, now, req[r].analysis, form.phone_number,
                                      req[r].fingerprintHash, TRUE,
                                      req[r].voiceFilePath, Latitude(form), Longitude(form),
                                      Address(form), req[r].consentRecord.timestamp)
         privateKey == SigningKey(keyEnv, r)
         signature == signData(canonicalJson(evidenceData), privateKey)
         signed == WithSignature(evidenceData, signature)
         evidenceHash == hashSHA256(Stringify(signed, NoReplacer))
     IN IF signDataThrows(privateKey)
          THEN Fail(r, "key import error")
          ELSE req' = [req EXCEPT
                 ![r].pc = "store",
                 ![r].evidenceData = signed,
                 ![r].signature = signature,
                 ![r].evidenceHash = evidenceHash,
                 ![r].ipfsHash = anchorToIPFS(evidenceHash, ipfsApiKey),
                 ![r].blockchainTxHash = anchorToEthereum(evidenceHash, ethRpcUrl, ethPrivateKey),
                 ![r].anchorEnv = [ipfs |-> ipfsApiKey, eth |-> ethRpcUrl /\ ethPrivateKey]]
  /\ UNCHANGED << audio, consent_records, evidence_records >>
  /\ GenFrame

\* lines 216-269: evidence JSON, signing key, signature, hash, anchoring
GenAssembleSign(r, keyEnv, ipfsApiKey, ethRpcUrl, ethPrivateKey) ==
  /\ req[r].pc = "assemble"
  /\ LET form == req[r].form
         evidenceData == EvidenceData(r, now, req[r].analysis, form.phone_number,
                                      req[r].fingerprintHash, form.voice_file,
                                      req[r].voiceFilePath, Latitude(form), Longitude(form),
                                      Address(form), req[r].consentRecord.timestamp)
         privateKey == SigningKey(keyEnv, r)
         signature == signData(canonicalJson(evidenceData), privateKey)
         signed == WithSignature(evidenceData, signature)
         evidenceHash == hashSHA256(Stringify(signed, NoReplacer))
     IN IF signDataThrows(privateKey)
          THEN Fail(r, "key import error")
          ELSE req' = [req EXCEPT
                 ![r].pc = "store",
                 ![r].evidenceData = signed,
                 ![r].signature = signature,
                 ![r].evidenceHash = evidenceHash,
                 ![r].ipfsHash = anchorToIPFS(evidenceHash, ipfsApiKey),
                 ![r].blockchainTxHash = anchorToEthereum(evidenceHash, ethRpcUrl, ethPrivateKey),
                 ![r].anchorEnv = [ipfs |-> ipfsApiKey, eth |-> ethRpcUrl /\ ethPrivateKey]]
  /\ UNCHANGED << audio, consent_records, evidence_records >>
  /\ GenFrame

\* property names in the order a JSONB column keeps them: shorter names
\* first, names of one length in byte order
JsonbOrder ==
  << "id", "hash", "text", "type", "address", "clauses", "consent", "version",
     "analysis", "document", "filename", "latitude", "location", "security",
     "algorithm", "ipfs_hash", "longitude", "signature", "timestamp",
     "auth_flags", "qr_present", "risk_level", "evidence_id", "qr_mismatch",
     "otp_verified", "phone_number", "previous_hash", "ocr_confidence",
     "barcode_present", "voice_file_path", "fingerprint_hash", "format_suspicious",
     "blockchain_tx_hash", "analysis_confidence", "voice_consent_recorded" >>

\* a value as it is read back from a JSONB column
RECURSIVE Jsonb(_)
Jsonb(v) ==
  IF v.t = "obj"
    THEN Obj([i \in 1..Len(PropertyList(v, Replacer(JsonbOrder))) |->
               KV(PropertyList(v, Replacer(JsonbOrder))[i],
                  Jsonb(Get(v, PropertyList(v, Replacer(JsonbOrder))[i])))])
  ELSE IF v.t = "arr"
    THEN JS("arr", 0, <<>>, [i \in 1..Len(v.kids) |-> KV("", Jsonb(v.kids[i].val))])
  ELSE v

\* mutant: the document_hash column takes the hash of the evidence
EvidenceRow_EvidenceHash(n, consentId, evidenceJson, signature, ipfsHash, txHash, clock) ==
  [ id |-> Str(<<UuidAtom("evidence_record", n)>>),
    consent_id |-> consentId,
    evidence_json |-> Jsonb(evidenceJson),
    document_hash |-> hashSHA256(Stringify(evidenceJson, NoReplacer)),
    signature |-> signature,
    previous_hash |-> Null,
    encrypted |-> FALSE,
    ipfs_hash |-> ipfsHash,
    blockchain_tx_hash |-> txHash,
    created_at |-> Iso(clock) ]

EvidenceRow(n, consentId, evidenceJson, signature, ipfsHash, txHash, clock) ==
  [ id |-> Str(<<UuidAtom("evidence_record", n)>>),
    consent_id |-> consentId,
    evidence_json |-> Jsonb(evidenceJson),
    document_hash |-> Get(Get(evidenceJson, "document"), "hash"),
    signature |-> signature,
    previous_hash |-> Null,
    encrypted |-> FALSE,
    ipfs_hash |-> ipfsHash,
    blockchain_tx_hash |-> txHash,
    created_at |-> Iso(clock) ]

\* mutant: the insert reports an error although the row was written
GenStore_RowLeftBehind(r, dbFault) ==
  /\ req[r].pc = "store"
  /\ LET row == EvidenceRow(Cardinality(evidence_records) + 1, req[r].consentRecord.id,
                            req[r].evidenceData, req[r].signature, req[r].ipfsHash,
                            req[r].blockchainTxHash, now)
     IN /\ evidence_records' = evidence_records \cup {row}
        /\ IF dbFault
             THEN Fail(r, "evidence insert error")
             ELSE Finish(r, req[r].form, req[r].anchorEnv,
                         [ status |-> 200, error |-> "", success |-> TRUE,
                           evidence_id |-> row.id,
                           evidence_hash |-> req[r].evidenceHash,
                           blockchain_anchored |-> Truthy(req[r].blockchainTxHash),
                           ipfs_anchored |-> Truthy(req[r].ipfsHash) ])
  /\ UNCHANGED << audio, consent_records >>
  /\ GenFrame

\* lines 271-307: insert the evidence record and answer
GenStore(r, dbFault) ==
  /\ req[r].pc = "store"
  /\ LET row == EvidenceRow(Cardinality(evidence_records) + 1, req[r].consentRecord.id,
                            req[r].evidenceData, req[r].signature, req[r].ipfsHash,
                            req[r].blockchainTxHash, now)
     IN IF dbFault
          THEN /\ Fail(r, "evidence insert error")
               /\ UNCHANGED evidence_records
          ELSE /\ Finish(r, req[r].form, req[r].anchorEnv,
                          [ status |-> 200, error |-> "", success |-> TRUE,
                            evidence_id |-> row.id,
                            evidence_hash |-> req[r].evidenceHash,
                            blockchain_anchored |-> Truthy(req[r].blockchainTxHash),
                            ipfs_anchored |-> Truthy(req[r].ipfsHash) ])
               /\ evidence_records' = evidence_records \cup {row}
  /\ UNCHANGED << audio, consent_records >>
  /\ GenFrame

(***************************************************************************)
(* verify-evidence requests.  A request carries a stored record as it is,  *)
(* a stored record with one field of its payload changed, or a crafted     *)
(* body.                                                                   *)
(***************************************************************************)
RECURSIVE GetPath(_, _)
GetPath(v, path) == IF path = <<>> THEN v ELSE GetPath(OptGet(v, Head(path)), Tail(path))

RECURSIVE SetPath(_, _, _)
SetPath(v, path, val) ==
  IF path = <<>> THEN val
  ELSE SetKey(v, Head(path), SetPath(Get(v, Head(path)), Tail(path), val))

\* every field of the evidence payload
EvidencePaths ==
  { <<"evidence_id">>, <<"timestamp">>,
    <<"document", "id">>, <<"document", "filename">>, <<"document", "hash">>,
    <<"analysis", "ocr_confidence">>, <<"analysis", "clauses">>,
    <<"analysis", "auth_flags">>, <<"analysis", "analysis_confidence">>,
    <<"consent", "phone_number">>, <<"consent", "otp_verified">>,
    <<"consent", "fingerprint_hash">>, <<"consent", "voice_consent_recorded">>,
    <<"consent", "voice_file_path">>, <<"consent", "location", "latitude">>,
    <<"consent", "location", "longitude">>, <<"consent", "location", "address">>,
    <<"consent", "timestamp">>,
    <<"security", "version">>, <<"security", "algorithm">>,
    <<"security", "previous_hash">>, <<"security", "signature">> }

TamperValues == {Null, Str(Text("changed"))}

NotBase64 == Str(Text("!!!!!!!!!!!!!!!!!!!!!!!!!!!!!!!!!!!!!!!!!!!!!!!!!!!!!!!!!!!!!!!!!!!!!!!!"))

CraftedEvidence == {Undefined, Null, Str(Text("evidence")), Num(5), Obj(<<>>)}

CraftedSignatures == {Undefined, Null, Str(Text("c2ln")), NotBase64}

Body(evidenceJson, signature) ==
  Obj(<<KV("evidence_json", evidenceJson), KV("signature", signature)>>)

Verify(kind, method, body, path, record) ==
  /\ verifyIn' = [kind |-> kind, method |-> method, body |-> body, path |-> path,
                  record |-> record, at |-> now, first |-> NoFirst]
  /\ verifyOut' = VerifyHandler(method, body, now)
  /\ UNCHANGED << documents, process, otpReq, workflow, canon, getOut, now, otp_verifications, otpCount, analyses, audio, consent_records,
                  evidence_records, req >>

\* a stored record is presented unchanged
VerifyStored(method) ==
  \E e \in evidence_records :
    Verify("stored", method, Body(e.evidence_json, e.signature), <<>>, e.id)

\* one field of a stored payload is changed, the signature is the original
VerifyTampered ==
  \E e \in evidence_records, path \in EvidencePaths, val \in TamperValues :
    /\ GetPath(e.evidence_json, path) # val
    /\ Verify("tampered", "POST", Body(SetPath(e.evidence_json, path, val), e.signature),
              path, e.id)

\* the value without one of its properties
WithoutKey(v, key) == Obj(SelectSeq(v.kids, LAMBDA kv : kv.k # key))

\* a stored payload lacking one of the required fields, the signature is the
\* original
VerifyIncomplete ==
  \E e \in evidence_records, i \in 1..Len(requiredFields) :
    Verify("incomplete", "POST", Body(WithoutKey(e.evidence_json, requiredFields[i]), e.signature),
           <<requiredFields[i]>>, e.id)

\* a stored payload is presented with another time as its timestamp
VerifyPostdated ==
  \E e \in evidence_records, t \in 0..MaxTime :
    /\ Get(e.evidence_json, "timestamp") # Iso(t)
    /\ Verify("postdated", "POST", Body(SetKey(e.evidence_json, "timestamp", Iso(t)), e.signature),
              <<"timestamp">>, e.id)

\* mutant: the issues array outlives the request, so a second call appends
\* to the issues of the first
VerifyAgain_SharedIssues ==
  /\ verifyIn.kind \notin {"none", "again"}
  /\ verifyIn' = [verifyIn EXCEPT !.kind = "again", !.at = now,
                                  !.first = [at |-> verifyIn.at, out |-> verifyOut]]
  /\ LET out == VerifyHandler(verifyIn.method, verifyIn.body, now)
     IN verifyOut' = [out EXCEPT !.report.issues = verifyOut.report.issues \o @]
  /\ UNCHANGED << documents, process, otpReq, workflow, canon, getOut, now, otp_verifications, otpCount, analyses, audio,
                  consent_records, evidence_records, req >>

\* the request that was just answered is sent once more
VerifyAgain ==
  /\ verifyIn.kind \notin {"none", "again"}
  /\ verifyIn' = [verifyIn EXCEPT !.kind = "again", !.at = now,
                                  !.first = [at |-> verifyIn.at, out |-> verifyOut]]
  /\ verifyOut' = VerifyHandler(verifyIn.method, verifyIn.body, now)
  /\ UNCHANGED << documents, process, otpReq, workflow, canon, getOut, now, otp_verifications, otpCount, analyses, audio,
                  consent_records, evidence_records, req >>

\* public keys a client may name: the configured one and a generated one
PublicKeys == {PublicKeyOf(EnvKey), PublicKeyOf(generateKeyPair(1))}

BodyWithKey(evidenceJson, signature, publicKey) ==
  Obj(<<KV("evidence_json", evidenceJson), KV("signature", signature),
        KV("public_key", publicKey)>>)

\* a stored record, unchanged or with another evidence_id, is presented with
\* its signature and a public key
VerifyKeyed ==
  \E e \in evidence_records, publicKey \in PublicKeys, path \in {<<>>, <<"evidence_id">>} :
    Verify("keyed", "POST",
           BodyWithKey(IF path = <<>> THEN e.evidence_json
                       ELSE SetPath(e.evidence_json, path, Str(Text("changed"))),
                       e.signature, publicKey),
           path, e.id)

\* anything else a client may send as evidence_json and signature
VerifyCrafted ==
  \E evidenceJson \in CraftedEvidence \cup {e.evidence_json : e \in evidence_records},
     signature \in CraftedSignatures :
    Verify("crafted", "POST", Body(evidenceJson, signature), <<>>, Undefined)

(***************************************************************************)
(* get-evidence.                                                           *)
(***************************************************************************)
\* serve handler of get-evidence: the record with its consent record, the
\* analysis of that and the document of that
GetEvidenceHandler(method, evidenceId) ==
  LET found == {e \in evidence_records : e.id = evidenceId}
      evidence == CHOOSE e \in found : TRUE
      consents == {c \in consent_records : c.id = evidence.consent_id}
      consent == CHOOSE c \in consents : TRUE
      joined == {a \in analyses : a.id = consent.analysis_id}
      analysis == CHOOSE a \in joined : TRUE
  IN IF method # "GET" THEN [NoGetOut EXCEPT !.status = 400, !.error = "Method not allowed"]
     ELSE IF ~Truthy(evidenceId)
       THEN [NoGetOut EXCEPT !.status = 400, !.error = "Evidence ID is required"]
     ELSE IF Cardinality(found) # 1
       THEN [NoGetOut EXCEPT !.status = 400, !.error = "select error"]
     ELSE IF Cardinality(consents) # 1 \/ Cardinality(joined) # 1
       THEN [NoGetOut EXCEPT !.status = 400, !.error = "TypeError"]
     ELSE [ status |-> 200, error |-> "",
            evidence_id |-> evidence.id,
            signature |-> evidence.signature,
            verified |-> TRUE,
            signature_valid |-> TRUE,
            evidence_data |-> evidence.evidence_json,
            anchored |-> Truthy(OrElse(evidence.blockchain_tx_hash, evidence.ipfs_hash)),
            document_filename |-> analysis.documents.original_filename ]

UnknownEvidenceId == Str(<<UuidAtom("evidence_record", 0)>>)

GetEvidence(method, evidenceId) ==
  /\ getOut = NoGetOut
  /\ getOut' = GetEvidenceHandler(method, evidenceId)
  /\ UNCHANGED << documents, process, otpReq, workflow, canon, now, otp_verifications, otpCount, analyses, audio, consent_records,
                  evidence_records, req, verifyIn, verifyOut >>

\* the get-evidence response is delivered
GetReturn ==
  /\ getOut # NoGetOut
  /\ getOut' = NoGetOut
  /\ UNCHANGED << documents, process, otpReq, workflow, canon, now, otp_verifications, otpCount, analyses, audio, consent_records,
                  evidence_records, req, verifyIn, verifyOut >>

NoPendingGet == getOut = NoGetOut

(***************************************************************************)
(* upload-document.  The handler stores the file and inserts the documents *)
(* row with status processing; processDocument then runs in the background *)
(* (EdgeRuntime.waitUntil) and awaits between its database calls, so each  *)
(* call is a step.  The documents bucket is written and never read; it is  *)
(* not part of the state.  analyses holds each row joined with its         *)
(* documents row, so an update of the documents row shows in it.           *)
(***************************************************************************)
UploadFrame == UNCHANGED << otpReq, workflow, canon, getOut, now, otp_verifications, otpCount, audio, consent_records, evidence_records, req, verifyIn, verifyOut >>

\* lines 485-558: the serve handler up to its response
UploadDocument(u, filename) ==
  LET n == Cardinality(documents) + 1
      document == [DocumentRow(n, filename, "processing") EXCEPT
                     !.file_path = Str(<<W("documents/"), NumAtom(now), W(".pdf")>>),
                     !.created_at = Iso(now)]
  IN /\ process[u].pc = "idle"
     /\ \A v \in 1..(u - 1) : process[v].pc # "idle"
     /\ documents' = documents \cup {document}
     /\ process' = [process EXCEPT ![u] = [pc |-> "ocr", documentId |-> document.id]]
     /\ UNCHANGED analyses
     /\ UploadFrame

\* .update({ status }).eq('id', documentId): supabase-js returns an error, it
\* does not throw, and the result is not looked at
SetStatus(documentId, status, updateFault) ==
  IF updateFault
    THEN UNCHANGED << documents, analyses >>
    ELSE /\ documents' = { IF d.id = documentId THEN [d EXCEPT !.status = status] ELSE d
                           : d \in documents }
         /\ analyses' = { IF a.documents.id = documentId
                            THEN [a EXCEPT !.documents.status = status] ELSE a
                          : a \in analyses }

\* lines 571-634, steps 1 to 6 and the catch block: OCR, clauses, barcodes,
\* risk analysis and translation, then the analyses insert; any failure
\* ends in the catch block, which sets the status failed
ProcessAnalyse(u, failure, updateFault) ==
  LET documentId == process[u].documentId
      document == CHOOSE d \in documents : d.id = documentId
      n == Cardinality(analyses) + 1
  IN /\ process[u].pc = "ocr"
     /\ IF failure
          THEN /\ SetStatus(documentId, "failed", updateFault)
               /\ process' = [process EXCEPT ![u].pc = "ended"]
          ELSE /\ analyses' = analyses \cup {AnalysisRow(n, document, <<>>)}
               /\ process' = [process EXCEPT ![u].pc = "status"]
               /\ UNCHANGED documents
     /\ UploadFrame

\* mutant: a failed status update is thrown and caught, the status becomes
\* failed
ProcessComplete_Throws(u, updateFault) ==
  /\ process[u].pc = "status"
  /\ SetStatus(process[u].documentId, IF updateFault THEN "failed" ELSE "completed", FALSE)
  /\ process' = [process EXCEPT ![u].pc = "ended"]
  /\ UploadFrame

\* lines 617-623, step 7: the status becomes completed
ProcessComplete(u, updateFault) ==
  /\ process[u].pc = "status"
  /\ SetStatus(process[u].documentId, "completed", updateFault)
  /\ process' = [process EXCEPT ![u].pc = "ended"]
  /\ UploadFrame

\* upload-document and the steps of processDocument
UploadNext(failures, updateFaults) ==
  \/ \E u \in Uploads : UploadDocument(u, Text("deed.pdf"))
  \/ \E u \in Uploads, failure \in failures, updateFault \in updateFaults :
       ProcessAnalyse(u, failure, updateFault)
  \/ \E u \in Uploads, updateFault \in updateFaults : ProcessComplete(u, updateFault)

\* no processDocument run is under way
NoProcessing == \A u \in Uploads : process[u].pc \in {"idle", "ended"}

(***************************************************************************)
(* A write to evidence_records that does not come from the functions: the  *)
(* evidence_id of the payload, or the signature, is replaced.              *)
(***************************************************************************)
ForeignSignature == signData(Text("other"), EnvKey)

AlterRecord ==
  \E e \in evidence_records :
    /\ Get(e.evidence_json, "evidence_id") # Str(Text("changed"))
    /\ e.signature # ForeignSignature
    /\ \E altered \in { [e EXCEPT !.evidence_json =
                                     SetKey(e.evidence_json, "evidence_id", Str(Text("changed")))],
                          [e EXCEPT !.signature = ForeignSignature] } :
         evidence_records' = (evidence_records \ {e}) \cup {altered}
    /\ UNCHANGED << documents, process, otpReq, workflow, canon, getOut, now, otp_verifications, otpCount, analyses, audio,
                    consent_records, req, verifyIn, verifyOut >>

(***************************************************************************)
(* Specifications.  generate-evidence reads otp_verifications in its OTP   *)
(* step alone, and verify-evidence reads no table: send-otp and verify-otp *)
(* are therefore interleaved between the submissions, not inside them.     *)
(*   Spec        complete submissions run concurrently.                    *)
(*   GenSpec     submissions of every kind run one at a time; the storage  *)
(*               bucket, the tables and the signing key may fail.          *)
(*   AnchorSpec  complete submissions run one at a time under every        *)
(*               configuration of the anchoring channels.                  *)
(*   KeySpec     complete submissions run one at a time in a process that  *)
(*               has no signing key configured.                            *)
(*   CanonSpec   the canonical form of step 8 is taken of two evidence      *)
(*               values whose properties were inserted in different order. *)
(*   FrameSpec   every function is served, one request at a time.          *)
(*   UploadSpec  documents are uploaded and processed in the background    *)
(*               while submissions run one at a time.                      *)
(*   TamperSpec  stored records are altered by a write that does not come  *)
(*               from the functions, and are read with get-evidence.       *)
(*   OtpSpec     codes are sent and expire; verify-otp requests of every   *)
(*               kind run one at a time.                                   *)
(*   OtpRaceSpec verify-otp requests for the same code overlap.            *)
(*   WorkflowSpec the ProcessingWorkflow wizard of the client.            *)
(*   RepeatSpec  a verify-evidence request is sent twice; the clock        *)
(*               advances and submissions run between the two calls.       *)
(*   VerifySpec  one code is sent and verified, submissions run one at a   *)
(*               time, the clock advances between them, and                *)
(*               verify-evidence requests are served.                      *)
(***************************************************************************)
OtpNext ==
  \/ SendOtp(ThePhone, SentCode)
  \/ VerifyOtp(ThePhone, SentCode)

AnchorEnvs == [ipfsApiKey : BOOLEAN, ethRpcUrl : BOOLEAN, ethPrivateKey : BOOLEAN]

NoAnchorEnv == [ipfsApiKey |-> FALSE, ethRpcUrl |-> FALSE, ethPrivateKey |-> FALSE]

GenNext(r, forms, keyEnvs, anchorEnvs, faults) ==
  \/ \E form \in forms : GenReceive(r, form)
  \/ GenOtpLookup(r)
  \/ GenAnalysisLookup(r)
  \/ \E storageFault \in faults : GenVoiceUpload(r, storageFault)
  \/ \E dbFault \in faults : GenConsentInsert(r, dbFault)
  \/ \E keyEnv \in keyEnvs, env \in anchorEnvs :
       GenAssembleSign(r, keyEnv, env.ipfsApiKey, env.ethRpcUrl, env.ethPrivateKey)
  \/ \E dbFault \in faults : GenStore(r, dbFault)

OthersAtRest(r) == \A q \in Requests \ {r} : req[q].pc \in {"idle", "done"}

AtRest == \A r \in Requests : req[r].pc \in {"idle", "done"}

\* concurrent submissions
Next ==
  \/ AtRest /\ OtpNext
  \/ \E r \in 1..NumReq :
       GenNext(r, {PlainForm, VoiceForm}, {"valid"}, {NoAnchorEnv}, {FALSE})

Spec == Init /\ [][Next]_vars

\* submissions of every kind, with faults of the bucket, the tables and the key
GenSpecNext ==
  \/ AtRest /\ OtpNext
  \/ \E r \in 1..GenReq :
       /\ OthersAtRest(r)
       /\ GenNext(r, {PlainForm, VoiceForm, WrongCodeForm, UnknownAnalysisForm, NoPhoneForm,
                      NoAnalysisForm, NoCodeForm, GetForm},
                  {"valid", "malformed"}, {NoAnchorEnv}, BOOLEAN)

GenSpec == Init /\ [][GenSpecNext]_vars

\* complete submissions under every configuration of the anchoring channels
AnchorSpecNext ==
  \/ AtRest /\ OtpNext
  \/ \E r \in 1..GenReq :
       /\ OthersAtRest(r)
       /\ GenNext(r, {PlainForm}, {"valid", "malformed"}, AnchorEnvs, {FALSE})

AnchorSpec == Init /\ [][AnchorSpecNext]_vars

\* complete submissions handled by a process without ECDSA_PRIVATE_KEY
KeySpecNext ==
  \/ AtRest /\ OtpNext
  \/ \E r \in 1..GenReq :
       /\ OthersAtRest(r)
       /\ GenNext(r, {PlainForm, VoiceForm}, {"unset"}, {NoAnchorEnv}, {FALSE})

KeySpec == Init /\ [][KeySpecNext]_vars

\* the unsigned evidence of a submission for the analysis, as step 6 builds it
SampleEvidence(analysis, form) ==
  EvidenceData(1, 0, analysis, form.phone_number, generateFingerprintHash(1),
               form.voice_file, Null, Latitude(form), Longitude(form), Address(form), Iso(0))

\* the same object built with its properties inserted in the order p
Permute(obj, p) == Obj([i \in 1..Len(obj.kids) |-> obj.kids[p[i]]])

Orders(obj) == Permutations(1..Len(obj.kids))

\* sections of the evidence whose properties are reordered
Sections == {"document", "analysis", "security"}

\* step 8 applied to two values
Canonicalize(a, b) ==
  /\ ~canon.applied
  /\ canon' = [applied |-> TRUE, a |-> a, b |-> b,
                outA |-> canonicalJson(a), outB |-> canonicalJson(b)]
  /\ UNCHANGED << documents, process, otpReq, workflow, getOut, now, otp_verifications, otpCount, analyses, audio,
                  consent_records, evidence_records, req, verifyIn, verifyOut >>

\* the top-level properties are inserted in another order
CanonicalizeTop ==
  \E analysis \in analyses, form \in {PlainForm, MarkerForm} :
    LET a == SampleEvidence(analysis, form)
    IN \E p \in Orders(a) : Canonicalize(a, Permute(a, p))

\* the properties of one section are inserted in another order
CanonicalizeNested ==
  \E analysis \in analyses, section \in Sections :
    LET a == SampleEvidence(analysis, PlainForm)
    IN \E p \in Orders(Get(a, section)) :
         Canonicalize(a, SetKey(a, section, Permute(Get(a, section), p)))

\* the top level is reversed and one section is reordered
CanonicalizeBoth ==
  \E analysis \in analyses, section \in Sections :
    LET a == SampleEvidence(analysis, PlainForm)
        reversed == Permute(a, [i \in 1..Len(a.kids) |-> Len(a.kids) + 1 - i])
    IN \E p \in Orders(Get(a, section)) :
         Canonicalize(a, SetKey(reversed, section, Permute(Get(a, section), p)))

\* the second value differs from the first in its evidence_id as well
CanonicalizeOther ==
  \E analysis \in analyses :
    LET a == SampleEvidence(analysis, PlainForm)
    IN \E p \in Orders(Get(a, "security")) :
         Canonicalize(a, SetKey(SetKey(a, "security", Permute(Get(a, "security"), p)),
                                "evidence_id", Str(<<UuidAtom("evidence", 2)>>)))

\* the second value differs from the first in the value of one field
CanonicalizeChanged ==
  \E analysis \in analyses, path \in EvidencePaths \ {<<"security", "signature">>},
     val \in TamperValues :
    LET a == SampleEvidence(analysis, VoiceForm)
    IN /\ GetPath(a, path) # val
       /\ Canonicalize(a, SetPath(a, path, val))

CanonNext ==
  \/ CanonicalizeTop
  \/ CanonicalizeNested
  \/ CanonicalizeBoth
  \/ CanonicalizeOther
  \/ CanonicalizeChanged

CanonSpec == Init /\ [][CanonNext]_vars

NoPendingVerify == verifyIn.kind = "none"

\* the verify-evidence response is delivered
VerifyReturn ==
  /\ verifyIn.kind # "none"
  /\ verifyIn' = NoVerifyIn
  /\ verifyOut' = ErrorResponse("")
  /\ UNCHANGED << documents, process, otpReq, workflow, canon, getOut, now, otp_verifications, otpCount, analyses, audio, consent_records,
                  evidence_records, req >>

\* nothing is being answered
Quiet == AtRest /\ NoPendingVerify /\ NoPendingGet

\* every function of the service, one request at a time; a document is
\* processed before the next request is served
FrameNext ==
  \/ Quiet /\ NoProcessing /\ otpCount = 0 /\ SendOtp(ThePhone, SentCode)
  \/ Quiet /\ NoProcessing /\ VerifyOtp(ThePhone, SentCode)
  \/ \E r \in 1..GenReq :
       /\ NoPendingVerify /\ NoPendingGet /\ NoProcessing /\ OthersAtRest(r)
       /\ GenNext(r, {PlainForm, VoiceForm}, {"valid"}, {NoAnchorEnv}, BOOLEAN)
  \/ Quiet /\ NoProcessing /\ VerifyStored("POST")
  \/ VerifyReturn
  \/ \E method \in {"GET", "POST"},
        evidenceId \in {e.id : e \in evidence_records} \cup {UnknownEvidenceId} :
       Quiet /\ NoProcessing /\ GetEvidence(method, evidenceId)
  \/ GetReturn
  \/ Quiet /\ UploadNext({FALSE}, {FALSE})

FrameSpec == Init /\ [][FrameNext]_vars

\* a consent for the analysis of the first uploaded document
UploadedForm == Form("POST", AnalysisId(Cardinality(InitialAnalyses) + 1), ThePhone, SentCode, FALSE, FALSE)

\* documents are uploaded and processed while consents are submitted
UploadSpecNext ==
  \/ AtRest /\ otpCount = 0 /\ SendOtp(ThePhone, SentCode)
  \/ AtRest /\ VerifyOtp(ThePhone, SentCode)
  \/ UploadNext(BOOLEAN, BOOLEAN)
  \/ \E r \in 1..GenReq :
       /\ OthersAtRest(r)
       /\ GenNext(r, {PlainForm, UploadedForm}, {"valid"}, {NoAnchorEnv}, {FALSE})

UploadSpec == Init /\ [][UploadSpecNext]_vars

\* stored records are altered behind the functions and read with get-evidence
TamperNext ==
  \/ Quiet /\ otpCount = 0 /\ SendOtp(ThePhone, SentCode)
  \/ Quiet /\ VerifyOtp(ThePhone, SentCode)
  \/ \E r \in 1..GenReq :
       /\ NoPendingGet /\ OthersAtRest(r)
       /\ GenNext(r, {PlainForm}, {"unset", "valid"}, {NoAnchorEnv}, {FALSE})
  \/ Quiet /\ AlterRecord
  \/ \E evidenceId \in {e.id : e \in evidence_records} : Quiet /\ GetEvidence("GET", evidenceId)
  \/ GetReturn

TamperSpec == Init /\ [][TamperNext]_vars

\* codes are sent and verify-otp requests of every kind run one at a time;
\* codes expire between them
OtpSpecNext ==
  \/ OtpIdle /\ TtlElapses
  \/ \E code \in {SentCode, OtherCode} : OtpIdle /\ SendOtp(ThePhone, code)
  \/ OtpIdle /\ OtpArrive({"POST", "GET"}, {ThePhone, Null}, {SentCode, OtherCode, Undefined})
  \/ OtpSteps(BOOLEAN)
  \/ \E q \in OtpRequests : OtpReturn(q)

OtpSpec == Init /\ [][OtpSpecNext]_vars

\* one code is sent and verify-otp requests carrying it overlap
OtpRaceNext ==
  \/ NoOtpRequest /\ SendOtp(ThePhone, SentCode)
  \/ OtpArrive({"POST"}, {ThePhone}, {SentCode})
  \/ OtpSteps({FALSE})

OtpRaceSpec == Init /\ [][OtpRaceNext]_vars

\* a verify-evidence request is repeated; time passes and a consent is
\* submitted between the two calls
RepeatNext ==
  \/ Tick
  \/ NoPendingVerify /\ AtRest /\ otpCount = 0 /\ SendOtp(ThePhone, SentCode)
  \/ NoPendingVerify /\ AtRest /\ VerifyOtp(ThePhone, SentCode)
  \/ \E r \in 1..GenReq :
       /\ verifyIn.kind # "again" /\ OthersAtRest(r)
       /\ GenNext(r, {PlainForm}, {"valid"}, {NoAnchorEnv}, {FALSE})
  \/ NoPendingVerify /\ AtRest /\ VerifyStored("POST")
  \/ NoPendingVerify /\ AtRest /\ VerifyPostdated
  \/ AtRest /\ VerifyAgain
  \/ VerifyReturn

RepeatSpec == Init /\ [][RepeatNext]_vars

(***************************************************************************)
(* ProcessingWorkflow: the six-step wizard of the client.  A step reports  *)
(* its completion through onComplete(data); steps 1 and 5 do so from a     *)
(* timer or after an awaited request, so their callback can run after the  *)
(* wizard has moved on.                                                    *)
(***************************************************************************)
WorkflowFiles == {Str(<<"a.pdf">>), Str(<<"b.pdf">>)}

OcrTexts == {Str(<<"SALE DEED">>), Str(<<"RENTAL AGREEMENT">>)}

\* the object a step hands to onComplete: named keys and the other keys it sets
Payload(fields, extra) == [fields |-> fields, extra |-> extra]

StepPayloads(n, async) ==
  CASE n = 1 -> {Payload([k \in {"document"} |-> f], {"documentId", "filePath"}) : f \in WorkflowFiles}
    [] n = 2 -> {Payload([k \in {"ocrText"} |-> t], {"ocrConfidence"}) : t \in OcrTexts}
    [] n = 3 -> {Payload([k \in {"analysisResult"} |-> Obj(<<>>)], {})}
    [] n = 4 -> {Payload([k \in {} |-> Null], {"documentSummary", "translations"})}
    [] n = 5 /\ async -> {Payload([k \in {"consentData", "evidenceRecord"} |-> Obj(<<>>)], {})}
    [] n = 5 /\ ~async -> {Payload([k \in {"consentData"} |-> Obj(<<>>)], {"evidenceVault"})}
    [] OTHER -> {Payload([k \in {} |-> Null], {})}

\* {...prev, ...data}
Merge(prev, data) ==
  [ document |-> IF "document" \in DOMAIN data.fields THEN data.fields["document"] ELSE prev.document,
    ocrText |-> IF "ocrText" \in DOMAIN data.fields THEN data.fields["ocrText"] ELSE prev.ocrText,
    analysisResult |-> IF "analysisResult" \in DOMAIN data.fields THEN data.fields["analysisResult"]
                       ELSE prev.analysisResult,
    consentData |-> IF "consentData" \in DOMAIN data.fields THEN data.fields["consentData"]
                    ELSE prev.consentData,
    evidenceRecord |-> IF "evidenceRecord" \in DOMAIN data.fields THEN data.fields["evidenceRecord"]
                       ELSE prev.evidenceRecord,
    extra |-> prev.extra \cup data.extra ]

\* mutant: the step counter is advanced without the test against 6
handleStepComplete_Unbounded(w, stepNumber, data) ==
  [ w EXCEPT !.workflowData = Merge(w.workflowData, data),
             !.currentStep = stepNumber + 1 ]

handleStepComplete(w, stepNumber, data) ==
  [ w EXCEPT !.workflowData = Merge(w.workflowData, data),
             !.currentStep = IF stepNumber < 6 THEN stepNumber + 1 ELSE w.currentStep ]

handleStepBack(w, stepNumber) == [w EXCEPT !.currentStep = stepNumber]

onRestart(w) == [w EXCEPT !.currentStep = 1, !.workflowData = EmptyWorkflowData]

WorkflowFrame ==
  UNCHANGED << documents, process, otpReq, canon, getOut, now, otp_verifications, otpCount, analyses, audio,
               consent_records, evidence_records, req, verifyIn, verifyOut >>

\* steps 1 and 5: the upload or the evidence request is started; its
\* completion is reported later
StepStart(n) ==
  /\ n \in {1, 5}
  /\ workflow.currentStep = n
  /\ n \notin workflow.pending
  /\ workflow' = [workflow EXCEPT !.pending = @ \cup {n}]
  /\ WorkflowFrame

\* the upload or the evidence request fails: no completion is reported
StepFails(n) ==
  /\ n \in workflow.pending
  /\ workflow' = [workflow EXCEPT !.pending = @ \ {n}]
  /\ WorkflowFrame

\* the scheduled onComplete of step 1 or 5 runs, whichever step is shown
StepCompleteLate(n, data) ==
  /\ n \in workflow.pending
  /\ data \in StepPayloads(n, TRUE)
  /\ workflow' = handleStepComplete([workflow EXCEPT !.pending = @ \ {n}], n, data)
  /\ WorkflowFrame

\* the Continue button of the step shown (steps 2 to 5)
StepComplete(n, data) ==
  /\ n \in 2..5
  /\ workflow.currentStep = n
  /\ data \in StepPayloads(n, FALSE)
  /\ workflow' = handleStepComplete(workflow, n, data)
  /\ WorkflowFrame

\* the Back button of the step shown (steps 2 to 5)
StepBack(n) ==
  /\ n \in 2..5
  /\ workflow.currentStep = n
  /\ workflow' = handleStepBack(workflow, n - 1)
  /\ WorkflowFrame

\* the restart button of the dashboard (step 6)
Restart ==
  /\ workflow.currentStep = 6
  /\ workflow' = onRestart(workflow)
  /\ WorkflowFrame

AllPayloads == UNION {StepPayloads(n, a) : n \in 1..6, a \in BOOLEAN}

WorkflowNext ==
  \/ \E n \in {1, 5} : StepStart(n)
  \/ \E n \in {1, 5} : StepFails(n)
  \/ \E n \in {1, 5}, data \in AllPayloads : StepCompleteLate(n, data)
  \/ \E n \in 2..5, data \in AllPayloads : StepComplete(n, data)
  \/ \E n \in 2..5 : StepBack(n)
  \/ Restart

WorkflowSpec == Init /\ [][WorkflowNext]_vars

\* one request at a time, generation or verification
VerifyNext ==
  \/ NoPendingVerify /\ AtRest /\ Tick
  \/ NoPendingVerify /\ AtRest /\ otpCount = 0 /\ SendOtp(ThePhone, SentCode)
  \/ NoPendingVerify /\ AtRest /\ VerifyOtp(ThePhone, SentCode)
  \/ \E r \in 1..VerifyReq :
       /\ NoPendingVerify /\ OthersAtRest(r)
       /\ GenNext(r, {PlainForm, MarkerForm}, {"unset", "valid"}, {NoAnchorEnv}, {FALSE})
  \/ \E method \in {"POST", "GET"} : NoPendingVerify /\ AtRest /\ VerifyStored(method)
  \/ NoPendingVerify /\ AtRest /\ VerifyTampered
  \/ NoPendingVerify /\ AtRest /\ VerifyCrafted
  \/ NoPendingVerify /\ AtRest /\ VerifyKeyed
  \/ NoPendingVerify /\ AtRest /\ VerifyIncomplete
  \/ VerifyReturn

VerifySpec == Init /\ [][VerifyNext]_vars

(***************************************************************************)
(* Properties of verify-evidence (checked under VerifySpec).               *)
(***************************************************************************)
Report == verifyOut.report

Presented == Get(verifyIn.body, "evidence_json")

PresentedSignature == Get(verifyIn.body, "signature")

\* the issues of detectTampering that refer to a field of the payload
IssuesNaming(path) ==
  CASE path = <<"timestamp">> -> {"Invalid or future timestamp"}
    [] path = <<"consent", "phone_number">> -> {"Missing phone number in consent"}
    [] path = <<"consent", "fingerprint_hash">> -> {"Missing fingerprint hash"}
    [] path = <<"document", "hash">> -> {"Invalid document hash format"}
    [] path = <<"security", "signature">> -> {"Missing digital signature"}
    [] OTHER -> {}

HasMarker(evidenceJson) ==
  \/ Includes(Stringify(evidenceJson, NoReplacer), "MODIFIED")
  \/ Includes(Stringify(evidenceJson, NoReplacer), "TAMPERED")

\* C1: whenever one field of a signed payload was changed and the payload is
\* verified with the original signature, the report is INVALID with
\* confidence 15 and lists an issue that names the changed field.
C1_TamperSensitivity ==
  verifyIn.kind = "tampered" =>
    /\ verifyOut.status = 200
    /\ Report.overall_status = "INVALID"
    /\ Report.confidence_score = LowConfidence
    /\ \E i \in 1..Len(Report.issues) : Report.issues[i] \in IssuesNaming(verifyIn.path)

\* C2: a report is VERIFIED exactly when the signature check passes and no
\* issue was found, INVALID otherwise; the confidence is 95 exactly when the
\* report is VERIFIED and 15 otherwise.
C2_VerifiedIffSignatureAndNoIssue ==
  verifyOut.status = 200 =>
    /\ Report.overall_status \in {"VERIFIED", "INVALID"}
    /\ Report.overall_status = "VERIFIED"
         <=> ( /\ verifySignature(Presented, PresentedSignature)
               /\ Report.issues = <<>> )
    /\ Report.confidence_score =
         IF Report.overall_status = "VERIFIED" THEN HighConfidence ELSE LowConfidence

Malformed(body) ==
  \/ Get(body, "evidence_json").t # "obj"
  \/ Get(body, "signature").t # "str"

\* C10: a verify request with a missing, null or non-object evidence_json,
\* or a missing or null signature, is answered with a report that is INVALID
\* and lists issues, never with an error response.
C10_VerifyNeverRaises ==
  verifyIn.kind = "crafted" /\ Malformed(verifyIn.body) =>
    /\ verifyOut.status = 200
    /\ Report.overall_status = "INVALID"
    /\ Len(Report.issues) > 0

\* C21: a payload from which one of evidence_id, timestamp, document,
\* analysis, consent, security is absent is reported INVALID with
\* confidence 15.
C21_StructuralCompleteness ==
  verifyIn.kind = "incomplete" =>
    /\ verifyOut.status = 200
    /\ Report.overall_status = "INVALID"
    /\ Report.confidence_score = LowConfidence

\* the second of two calls with the same body reports what the first did
SameVerdict ==
  /\ verifyOut.status = verifyIn.first.out.status
  /\ Report.overall_status = verifyIn.first.out.report.overall_status
  /\ Report.issues = verifyIn.first.out.report.issues
  /\ Report.confidence_score = verifyIn.first.out.report.confidence_score

WithoutSignature(evidenceJson) ==
  LET security == Get(evidenceJson, "security")
  IN SetKey(evidenceJson, "security",
            Obj(SelectSeq(security.kids, LAMBDA kv : kv.k # "signature")))

\* ECDSA verification: the signature was made over exactly this text with
\* the private half of this public key
EcdsaValid(publicKey, signature, data) ==
  /\ signature.t = "str" /\ Len(signature.s) = 1 /\ signature.s[1].k = "sig"
  /\ publicKey = Str(<<Atom("spki", signature.s[1].s, signature.s[1].n, <<>>)>>)
  /\ signature.s[1].of = data

\* C11: a verify request that names a public key is reported VERIFIED only
\* if the signature is valid under that key for the canonical form of the
\* presented evidence_json without security.signature.
C11_VerifiedOnlyIfValidUnderKey ==
  verifyIn.kind = "keyed" /\ verifyOut.status = 200 /\ Report.overall_status = "VERIFIED"
    => EcdsaValid(Get(verifyIn.body, "public_key"), PresentedSignature,
                  canonicalJson(WithoutSignature(Presented)))

\* C12: the signature of every stored evidence record is valid for the
\* canonical form of its evidence_json without security.signature under a
\* public key found in the security section of that evidence_json.
C12_SignatureCheckableFromRecord ==
  \A e \in evidence_records :
    LET security == Get(e.evidence_json, "security")
    IN \E i \in 1..Len(security.kids) :
         EcdsaValid(security.kids[i].val, e.signature,
                    canonicalJson(WithoutSignature(e.evidence_json)))

(***************************************************************************)
(* Properties of the canonical form (checked under CanonSpec).             *)
(***************************************************************************)
\* equal as JSON values: objects by their properties, whatever their order
RECURSIVE StructurallyEqual(_, _)
StructurallyEqual(a, b) ==
  IF a.t # b.t THEN FALSE
  ELSE IF a.t = "obj"
    THEN /\ {a.kids[i].k : i \in 1..Len(a.kids)} = {b.kids[i].k : i \in 1..Len(b.kids)}
         /\ Len(a.kids) = Len(b.kids)
         /\ \A i \in 1..Len(a.kids) :
              StructurallyEqual(a.kids[i].val, Get(b, a.kids[i].k))
  ELSE IF a.t = "arr"
    THEN /\ Len(a.kids) = Len(b.kids)
         /\ \A i \in 1..Len(a.kids) : StructurallyEqual(a.kids[i].val, b.kids[i].val)
  ELSE a = b

\* C16: two evidence values that are structurally equal have the same
\* canonical form, whatever the order in which their properties were
\* inserted, at the top level or inside a section.
C16_CanonicalDeterminism ==
  canon.applied /\ StructurallyEqual(canon.a, canon.b) => canon.outA = canon.outB

\* two equal values that differ in the order of the top level and of the
\* security section were given the same canonical form
C16_Witness ==
  /\ canon.applied /\ StructurallyEqual(canon.a, canon.b)
  /\ Keys(canon.a) # Keys(canon.b)
  /\ Keys(Get(canon.a, "security")) # Keys(Get(canon.b, "security"))
  /\ canon.outA = canon.outB

\* C24: two evidence values that differ in the value of a field, at the top
\* level or nested, have different canonical forms.
C24_SignedBytesCoverEveryField ==
  canon.applied /\ ~StructurallyEqual(canon.a, canon.b) => canon.outA # canon.outB

(***************************************************************************)
(* Properties of upload-document (checked under UploadSpec).               *)
(***************************************************************************)
\* C22: every evidence record is created for a document whose status is
\* completed at that moment.
C22_EvidenceOnlyForCompleted ==
  [][ \A e \in evidence_records' \ evidence_records :
        \E d \in documents :
          d.id = Get(Get(e.evidence_json, "document"), "id") /\ d.status = "completed" ]_vars

\* the documents row of a processDocument run
DocumentOfRun(u) == CHOOSE d \in documents : d.id = process[u].documentId

HasAnalysis(d) == \E a \in analyses : a.documents.id = d.id

\* C29: once processDocument has ended, a document with status completed
\* has an analyses row and one with status failed has none; a status only
\* changes from processing to completed or from processing to failed.
C29_StatusAgreesWithOutcome ==
  /\ [](\A u \in Uploads :
          process[u].pc = "ended" =>
            /\ DocumentOfRun(u).status = "completed" => HasAnalysis(DocumentOfRun(u))
            /\ DocumentOfRun(u).status = "failed" => ~HasAnalysis(DocumentOfRun(u)))
  /\ [][ \A d \in documents : \A e \in documents' :
           d.id = e.id /\ d.status # e.status =>
             d.status = "processing" /\ e.status \in {"completed", "failed"} ]_vars

\* a run has ended with its document completed and analysed
C29_Witness ==
  \E u \in Uploads :
    /\ process[u].pc = "ended"
    /\ DocumentOfRun(u).status = "completed"
    /\ HasAnalysis(DocumentOfRun(u))

(***************************************************************************)
(* Properties of the stored rows and of get-evidence.                      *)
(***************************************************************************)
\* C19: no step of any function changes or removes an existing
\* consent_records row, or changes an existing evidence_records row in a
\* field other than ipfs_hash and blockchain_tx_hash (checked under
\* FrameSpec).
C19_RowsImmutable ==
  [][ /\ \A c \in consent_records : c \in consent_records'
      /\ \A e \in evidence_records :
           \E kept \in evidence_records' :
             kept = [e EXCEPT !.ipfs_hash = kept.ipfs_hash,
                              !.blockchain_tx_hash = kept.blockchain_tx_hash] ]_vars

\* get-evidence answered for one of two stored records, after a document
\* was uploaded
C19_Witness ==
  /\ Cardinality(evidence_records) = 2 /\ Cardinality(consent_records) = 2
  /\ Cardinality(analyses) > Cardinality(InitialAnalyses)
  /\ getOut.status = 200

\* the public keys of every key pair the service has signed with
KnownPublicKeys ==
  {PublicKeyOf(EnvKey)} \cup {PublicKeyOf(generateKeyPair(r)) : r \in Requests}

\* C20: get-evidence reports verified (and signature_valid) true only if the
\* signature it returns is valid for the evidence_json it returns (checked
\* under TamperSpec).
C20_VerifiedOnlyIfSignatureValid ==
  getOut.status = 200 /\ (getOut.verified \/ getOut.signature_valid)
    => \E publicKey \in KnownPublicKeys :
         EcdsaValid(publicKey, getOut.signature,
                    canonicalJson(WithoutSignature(getOut.evidence_data)))

(***************************************************************************)
(* Properties of verify-otp.                                               *)
(***************************************************************************)
OtpDone(q) == otpReq[q].pc = "done"

\* C25: no otp_verifications row is the basis of two successful verify-otp
\* responses, however the requests overlap (checked under OtpRaceSpec).
C25_OtpSingleUse ==
  \A p, q \in OtpRequests :
    /\ p # q
    /\ OtpDone(p) /\ otpReq[p].response.success
    /\ OtpDone(q) /\ otpReq[q].response.success
    => otpReq[p].otpRecord # otpReq[q].otpRecord

\* a row for the phone number and code of the request was there on arrival,
\* not verified and not expired
HadMatchingRow(q) ==
  \E row \in otpReq[q].before :
    /\ row.phone_number = otpReq[q].phone_number /\ row.otp_code = otpReq[q].otp_code
    /\ ~row.verified /\ row.expires_at > now

\* the step in which the request is answered
OtpAnswered(q) == ~OtpDone(q) /\ OtpDone(q)'

OtpRejection(q) ==
  IF otpReq[q].method # "POST" THEN "Method not allowed"
  ELSE IF ~Truthy(otpReq[q].phone_number) \/ ~Truthy(otpReq[q].otp_code)
    THEN "Phone number and OTP code are required"
  ELSE "Invalid or expired OTP code"

Done(r) == req[r].pc = "done"

Succeeded(r) == Done(r) /\ req[r].response.success

Failed(r) == Done(r) /\ ~req[r].response.success

\* the consent records request r inserted (its fingerprint is its own)
ConsentOf(r) ==
  {c \in consent_records : c.fingerprint_hash = Str(<<Atom("fp", "", r, <<>>)>>)}

\* the evidence records that carry the fingerprint of request r
EvidenceOf(r) ==
  {e \in evidence_records :
     Get(Get(e.evidence_json, "consent"), "fingerprint_hash") = Str(<<Atom("fp", "", r, <<>>)>>)}

\* the key pair a signature was made with
SignerOf(signature) == [kind |-> signature.s[1].s, n |-> signature.s[1].n]

\* C13: all signatures of one process are made with one key pair, also when
\* no key is configured (checked under KeySpec).
C13_SingleSigningKey ==
  \A e1, e2 \in evidence_records : SignerOf(e1.signature) = SignerOf(e2.signature)

\* position of an evidence record in the order of creation
CreationOrder(e) == e.id.s[1].n

DocumentOf(e) == Get(Get(e.evidence_json, "document"), "id")

\* the evidence hash of a record, as step 9 computes it
EvidenceHashOf(e) == hashSHA256(Stringify(e.evidence_json, NoReplacer))

\* C14: the previous_hash of an evidence record, in its security section and
\* in its column, is the evidence hash of the latest earlier record of the
\* same document, and null only if there is none (checked under GenSpec).
C14_ChainIntegrity ==
  \A e2 \in evidence_records :
    LET prior == { e1 \in evidence_records :
                     DocumentOf(e1) = DocumentOf(e2) /\ CreationOrder(e1) < CreationOrder(e2) }
        linked == Get(Get(e2.evidence_json, "security"), "previous_hash")
    IN IF prior = {}
         THEN linked = Null /\ e2.previous_hash = Null
         ELSE \E e1 \in prior :
                /\ \A other \in prior : CreationOrder(other) <= CreationOrder(e1)
                /\ linked = EvidenceHashOf(e1)
                /\ e2.previous_hash = EvidenceHashOf(e1)

\* C15: in every evidence record, evidence_json.document.hash is the SHA-256
\* of the storage path of its document followed by the document's
\* created_at, and the document_hash column repeats it (checked under
\* VerifySpec, where both documents are submitted).
C15_DocumentHash ==
  \A e \in evidence_records :
    \E a \in analyses :
      /\ a.documents.id = DocumentOf(e)
      /\ Get(Get(e.evidence_json, "document"), "hash")
           = hashSHA256(a.documents.file_path.s \o a.documents.created_at.s)
      /\ e.document_hash = Get(Get(e.evidence_json, "document"), "hash")

\* a record of the second document is stored; its hash is not the hash of
\* the first document
C15_Witness ==
  \E e \in evidence_records, a1, a2 \in analyses :
    /\ a1.id = AnalysisId(1) /\ a2.id = AnalysisId(2)
    /\ DocumentOf(e) = a2.documents.id
    /\ e.document_hash = hashSHA256(a2.documents.file_path.s \o a2.documents.created_at.s)
    /\ e.document_hash # hashSHA256(a1.documents.file_path.s \o a1.documents.created_at.s)

\* C17: the evidence_hash a successful request returns is the SHA-256 of
\* the canonical serialization, the one used for signing, of the
\* evidence_json it stored, so that it can be recomputed from the record
\* (checked under GenSpec).
C17_HashReproducible ==
  \A r \in Requests :
    Succeeded(r) =>
      \E e \in evidence_records :
        /\ e.id = req[r].response.evidence_id
        /\ req[r].response.evidence_hash = hashSHA256(canonicalJson(e.evidence_json))

\* errors raised by the signing step, the storage bucket or a table
FaultMessages ==
  {"upload error", "consent insert error", "key import error", "evidence insert error"}

\* errors raised by the validation of the request
ValidationMessages ==
  {"Analysis ID, phone number and OTP code are required", "OTP verification failed"}

\* C18: a failed request carries an error message, with status 400 when the
\* request was invalid and 500 when signing, the bucket or a table failed
\* (checked under GenSpec).
C18_StatusByErrorClass ==
  \A r \in Requests :
    Failed(r) =>
      /\ req[r].response.error # ""
      /\ req[r].response.error \in ValidationMessages => req[r].response.status = 400
      /\ req[r].response.error \in FaultMessages => req[r].response.status = 500

\* C4: no two evidence records have the same consent_id (checked under Spec,
\* where submissions interleave).
C4_UniqueConsentId ==
  \A e1, e2 \in evidence_records : e1.consent_id = e2.consent_id => e1 = e2

\* two overlapping requests have both stored their evidence
C4_Witness ==
  \E r1, r2 \in Requests :
    /\ r1 \in req[r2].overlaps
    /\ Succeeded(r1) /\ Succeeded(r2)
    /\ EvidenceOf(r1) # {} /\ EvidenceOf(r2) # {} /\ EvidenceOf(r1) # EvidenceOf(r2)

\* C5: of two overlapping requests that submit the same consent, one stores
\* the single evidence record and the other fails with a conflict.
C5_DuplicateConflict ==
  \A r1, r2 \in Requests :
    ( /\ r1 \in req[r2].overlaps
      /\ req[r1].form = req[r2].form
      /\ Done(r1) /\ Done(r2) /\ (Succeeded(r1) \/ Succeeded(r2)) )
    => /\ Cardinality(EvidenceOf(r1) \cup EvidenceOf(r2)) = 1
       /\ \/ Succeeded(r1) /\ Failed(r2) /\ req[r2].response.status = 409
          \/ Succeeded(r2) /\ Failed(r1) /\ req[r1].response.status = 409

\* C28: every evidence record references one existing consent record, which
\* the same request created, and the consent section of its payload repeats
\* the phone number, fingerprint hash, voice file path and timestamp of that
\* row; voice_consent_recorded is true exactly when the path is not null
\* (checked under Spec).
C28_EvidenceBoundToConsent ==
  \A e \in evidence_records :
    LET consent == Get(e.evidence_json, "consent")
        rows == {c \in consent_records : c.id = e.consent_id}
    IN /\ Cardinality(rows) = 1
       /\ \A c \in rows :
            /\ \E r \in Requests : c \in ConsentOf(r) /\ e \in EvidenceOf(r)
            /\ Get(consent, "phone_number") = c.phone_number
            /\ Get(consent, "fingerprint_hash") = c.fingerprint_hash
            /\ Get(consent, "voice_file_path") = c.voice_file_path
            /\ Get(consent, "timestamp") = c.timestamp
            /\ Get(consent, "voice_consent_recorded") = Bool(c.voice_file_path # Null)

\* one record with a voice recording and one without were stored
C28_Witness ==
  \E e1, e2 \in evidence_records :
    /\ Get(Get(e1.evidence_json, "consent"), "voice_consent_recorded") = Bool(TRUE)
    /\ Get(Get(e1.evidence_json, "consent"), "voice_file_path") # Null
    /\ Get(Get(e2.evidence_json, "consent"), "voice_consent_recorded") = Bool(FALSE)
    /\ e1.consent_id # e2.consent_id

\* C27: no step of a generation request changes otp_verifications, and when
\* a request succeeds the verified row for its phone number and code is
\* still in the table (checked under Spec).
C27_GenerationKeepsOtpRows ==
  [][ req' # req =>
        /\ otp_verifications' = otp_verifications
        /\ \A r \in Requests :
             ~Succeeded(r) /\ Succeeded(r)' =>
               \E row \in otp_verifications' :
                 /\ row.phone_number = req[r].form.phone_number
                 /\ row.otp_code = req[r].form.otp_code
                 /\ row.verified ]_vars

\* two requests succeeded on the same verified row
C27_Witness ==
  /\ \A r \in 1..NumReq : Succeeded(r)
  /\ \E row \in otp_verifications :
       row.phone_number = ThePhone /\ row.otp_code = SentCode /\ row.verified

\* C6: a request passes the OTP step only if a verified OTP row matches its
\* phone number and code; otherwise the step ends it with an error and no
\* table changes; and every evidence record says consent.otp_verified = true.
C6_ConsentGating ==
  /\ [][ \A r \in Requests :
           ( /\ req[r].pc = "otp" /\ req'[r].pc # "otp"
             /\ ~\E row \in otp_verifications :
                   /\ row.phone_number = req[r].form.phone_number
                   /\ row.otp_code = req[r].form.otp_code
                   /\ row.verified )
           => /\ req'[r].pc = "done"
              /\ req'[r].response.status = 400
              /\ ~req'[r].response.success
              /\ consent_records' = consent_records
              /\ evidence_records' = evidence_records ]_vars
  /\ [](\A r \in Requests :
          Done(r) /\ req[r].response.error = "OTP verification failed"
            => ConsentOf(r) = {} /\ EvidenceOf(r) = {})
  /\ [](\A e \in evidence_records :
          Get(Get(e.evidence_json, "consent"), "otp_verified") = Bool(TRUE))

\* a request was turned away at the OTP step while an unverified row with
\* its phone number and code existed
C6_Witness ==
  \E r \in Requests :
    /\ Done(r) /\ req[r].response.error = "OTP verification failed"
    /\ req[r].form = VoiceForm
    /\ \E row \in otp_verifications : row.otp_code = SentCode /\ ~row.verified

\* C7: evidence_records changes only in the last step of a request that
\* succeeds, so a request that fails at any step leaves the table as it was
\* and owns no evidence record.
C7_NoPartialEvidence ==
  /\ [][ evidence_records' # evidence_records
           => \E r \in Requests :
                /\ req[r].pc = "store" /\ req'[r].pc = "done"
                /\ req'[r].response.success
                /\ \E e \in evidence_records' :
                     /\ evidence_records' = evidence_records \cup {e}
                     /\ e.id = req'[r].response.evidence_id ]_vars
  /\ [](\A r \in Requests : Failed(r) => EvidenceOf(r) = {})

\* after one request stored its evidence, another failed at the evidence
\* insert, its consent record already written
C7_Witness ==
  \E r1, r2 \in Requests :
    /\ Succeeded(r1) /\ EvidenceOf(r1) # {}
    /\ Failed(r2) /\ req[r2].response.error = "evidence insert error"
    /\ ConsentOf(r2) # {}

\* C8: the voice step either stores the recording and goes on, or leaves
\* the bucket as it was and ends the request with the upload error, and in
\* that case no consent record is created: not in this step, and the request
\* owns none afterwards.
C8_VoiceFailureNoConsent ==
  /\ [][ \A r \in Requests :
           req[r].pc = "voice" /\ req[r].form.voice_file /\ req'[r].pc # "voice"
             => \/ /\ req'[r].pc = "consent"
                   /\ req'[r].voiceFilePath \notin audio
                   /\ audio' = audio \cup {req'[r].voiceFilePath}
                \/ /\ req'[r].pc = "done"
                   /\ req'[r].response.error = "upload error"
                   /\ audio' = audio
                   /\ consent_records' = consent_records ]_vars
  /\ [](\A r \in Requests :
          Done(r) /\ req[r].response.error = "upload error" => ConsentOf(r) = {})

\* a request ended with the upload error after an earlier one wrote its
\* consent record
C8_Witness ==
  \E r1, r2 \in Requests :
    /\ Done(r2) /\ req[r2].response.error = "upload error"
    /\ ConsentOf(r1) # {}

\* C9: a request is never ended by anchoring, and on the record a successful
\* request stores, ipfs_hash (blockchain_tx_hash) is null exactly when the
\* IPFS (Ethereum) channel was not configured.
C9_AnchoringBestEffort ==
  /\ [][ \A r \in Requests :
           req[r].pc = "assemble" /\ req'[r].pc = "done"
             => req'[r].response.error = "key import error" ]_vars
  /\ [](\A r \in Requests :
          Succeeded(r) =>
            \E e \in evidence_records :
              /\ e.id = req[r].response.evidence_id
              /\ (e.ipfs_hash = Null) <=> ~req[r].anchorEnv.ipfs
              /\ (e.blockchain_tx_hash = Null) <=> ~req[r].anchorEnv.eth
              /\ req[r].response.ipfs_anchored <=> req[r].anchorEnv.ipfs
              /\ req[r].response.blockchain_anchored <=> req[r].anchorEnv.eth)

\* a request stored a record anchored to IPFS but not to Ethereum
C9_Witness ==
  \E r \in Requests, e \in evidence_records :
    /\ Succeeded(r) /\ e.id = req[r].response.evidence_id
    /\ e.ipfs_hash # Null /\ e.blockchain_tx_hash = Null
(***************************************************************************)
(* Properties of ProcessingWorkflow.                                       *)
(***************************************************************************)
StepCompleted(n) ==
  \E data \in AllPayloads :
    \/ workflow.currentStep = n /\ n \in 2..5 /\ data \in StepPayloads(n, FALSE)
         /\ workflow' = handleStepComplete(workflow, n, data)
    \/ n \in workflow.pending /\ data \in StepPayloads(n, TRUE)
         /\ workflow' = handleStepComplete([workflow EXCEPT !.pending = @ \ {n}], n, data)

\* C30: currentStep stays within 1..6; completing step n < 6 moves to n + 1,
\* completing step 6 leaves the step at 6, back from step n moves to n - 1,
\* and restart returns to step 1 with the workflow data reset to its initial,
\* empty value (checked under WorkflowSpec).
C30_WorkflowStepBounds ==
  /\ [](/\ workflow.currentStep \in 1..6
        /\ \A data \in AllPayloads :
             handleStepComplete(workflow, 6, data).currentStep = workflow.currentStep)
  /\ [][/\ \A n \in 1..5 : StepCompleted(n) => workflow'.currentStep = n + 1
        /\ \A n \in 2..5 : workflow.currentStep = n /\ workflow' = handleStepBack(workflow, n - 1)
                               => workflow'.currentStep = n - 1
        /\ workflow.currentStep = 6 /\ workflow' = onRestart(workflow)
             => /\ workflow'.currentStep = 1
                /\ workflow'.workflowData.document = Null
                /\ workflow'.workflowData.ocrText = Str(<<>>)
                /\ workflow'.workflowData.analysisResult = Null
                /\ workflow'.workflowData.consentData = Null
                /\ workflow'.workflowData.evidenceRecord = Null
                /\ workflow'.workflowData.extra = {}]_vars

\* the wizard was restarted after all steps were completed, while the
\* evidence request of step 5 is still awaited
C30_Witness ==
  /\ workflow.currentStep = 1
  /\ workflow.workflowData = EmptyWorkflowData
  /\ 5 \in workflow.pending

====
